---------------------------- MODULE Spec2Model ----------------------------
(***************************************************************************)
(* Model of the AI session orchestration layer of Path_To_Auth:            *)
(*   - services/aiService.ts       (AIService, the completion gateway)     *)
(*   - hooks/useReflectionSession  (the 10-question reflection interview)  *)
(*   - hooks/useJournalChat        (the journal chat conversation hook)    *)
(*   - hooks/useSavedInsights      (the saved insight store)               *)
(*                                                                         *)
(* Strings are modelled as sequences of tokens.  A token is a TLA+ string  *)
(* that stands for itself: a single character ("\n", " ", "-", "1", ".")   *)
(* or a whole word.  A text is the concatenation of its tokens, and the    *)
(* string functions of the source (split, trim, toLowerCase, includes,     *)
(* startsWith, substring, indexOf) are computed on the token sequence.     *)
(***************************************************************************)
EXTENDS Integers, Sequences, FiniteSets, Bags, TLC

VARIABLES
    \* ---- useReflectionSession (hook state) ----
    currentSession,            \* ReflectionSession | NULL
    currentQuestion,           \* ReflectionQuestion | NULL (set by the effect)
    hasCompletedAllQuestions,  \* BOOLEAN
    error,                     \* error string | NULL
    calls,                     \* in-flight startNewSession/answerCurrentQuestion calls
    sessionsStarted,           \* number of sessions created so far (generateId)
    failures,                  \* number of failed gateway requests so far
    overlaps,                  \* number of calls issued while another was in flight
    answered,                  \* answerCurrentQuestion calls resolved since the last start
    last,                      \* the last hook call that resolved
    \* ---- ResponseParser exercised on its own ----
    pText,                     \* the raw text handed to parseAnalysisResponse
    pResult,                   \* its result | NoAnalysis
    \* ---- AIService exercised on its own ----
    svcPhase,                  \* "idle" | "pending" | "done"
    svcOp,                     \* the operation called
    svcOutcome,                \* what fetch did with its request
    svcResult,                 \* what the operation's promise settled to
    \* ---- useJournalChat ----
    userId,                    \* session?.user?.id | NoUser
    entries,                   \* useJournal().entries (and latestEntriesRef)
    messages,                  \* ChatMessage[]
    isLoading,
    selectedEntry,             \* entry id | NoEntry
    isAllEntriesMode,
    conversationId,            \* row id | NoConversation
    initializing,
    isBookmarked,
    load,                      \* where loadRecentConversation stands
    store,                     \* the chat_conversations table, row id -> row
    now,                       \* Date.now()
    chatCalls,                 \* bag of the hook's calls awaiting a reply
    calls_made,                \* calls of the hook's operations so far
    entryChanges,              \* changes of the entry collection so far
    chatLast,                  \* the step the hook took last
    hist,                      \* history of the calls made in succession
    \* ---- useSavedInsights ----
    sessionUser,               \* session?.user?.id | NoUser
    savedInsights,             \* SavedInsight[]
    loading,
    asyncStorage,              \* AsyncStorage, key -> item
    insQueue,                  \* AsyncStorage requests whose promise has not settled
    rendered,                  \* savedInsights of the render the handlers come from
    insClock,                  \* Date.now()
    insMade,                   \* mutations called so far
    userChanges,               \* session changes so far
    insIdeal,                  \* the list with every mutation since the load applied
    insHist                    \* history of the mutations

\* `undefined` for the optional analysis of a session
NoAnalysis == [none |-> TRUE]

reflVars == <<currentSession, currentQuestion, hasCompletedAllQuestions, error,
              calls, sessionsStarted, failures, overlaps, answered, last>>
parseVars == <<pText, pResult>>
svcVars == <<svcPhase, svcOp, svcOutcome, svcResult>>
chatVars == <<userId, entries, messages, isLoading, selectedEntry, isAllEntriesMode,
              conversationId, initializing, isBookmarked, load, store, now, chatCalls,
              calls_made, entryChanges, chatLast, hist>>
insVars == <<sessionUser, savedInsights, loading, asyncStorage, insQueue, rendered,
             insClock, insMade, userChanges, insIdeal, insHist>>
vars == <<reflVars, parseVars, svcVars, chatVars, insVars>>
notRefl == <<parseVars, svcVars, chatVars, insVars>>
notParse == <<reflVars, svcVars, chatVars, insVars>>
notSvc == <<reflVars, parseVars, chatVars, insVars>>
notChat == <<reflVars, parseVars, svcVars, insVars>>
notIns == <<reflVars, parseVars, svcVars, chatVars>>

(***************************************************************************)
(* Strings as token sequences                                              *)
(***************************************************************************)
NL == "\n"
SP == " "
\* The token for the bullet character U+2022
BULLET == "(bullet)"

\* Tokens that are whitespace for String.prototype.trim
IsSpace(tok) == tok \in {NL, SP, "\t"}

\* Tokens that are one decimal digit (the regular expression class \d)
IsDigit(tok) == tok \in {"0", "1", "2", "3", "4", "5", "6", "7", "8", "9"}

\* String.prototype.toLowerCase, token by token
LowerTok(tok) ==
    CASE tok = "X"                   -> "x"
      [] tok = "Negative patterns"   -> "negative patterns"
      [] tok = "Positive patterns"   -> "positive patterns"
      [] tok = "Patterns to address" -> "patterns to address"
      [] tok = "Challenges"          -> "challenges"
      [] tok = "Strengths"           -> "strengths"
      [] tok = "Affirmations"        -> "affirmations"
      [] tok = "Daily affirmations"  -> "daily affirmations"
      [] tok = "Actionable steps"    -> "actionable steps"
      [] tok = "Steps"               -> "steps"
      [] tok = "Actions"             -> "actions"
      [] tok = "Final thoughts"      -> "final thoughts"
      [] OTHER                       -> tok

toLowerCase(s) == [i \in 1..Len(s) |-> LowerTok(s[i])]

\* The header keywords that occur as a substring of one (lower-case) token
SubHeaders(tok) ==
    CASE tok = "negative patterns"   -> {"negative patterns"}
      [] tok = "patterns to address" -> {"patterns to address"}
      [] tok = "challenges"          -> {"challenges"}
      [] tok = "positive patterns"   -> {"positive patterns"}
      [] tok = "strengths"           -> {"strengths"}
      [] tok = "patterns to embrace" -> {"patterns to embrace"}
      [] tok = "affirmations"        -> {"affirmations"}
      [] tok = "daily affirmations"  -> {"daily affirmations", "affirmations"}
      [] tok = "actionable steps"    -> {"actionable steps", "steps"}
      [] tok = "steps"               -> {"steps"}
      [] tok = "actions"             -> {"actions"}
      [] OTHER                       -> {}

\* String.prototype.includes(header) for a header keyword
includes(s, header) == \E i \in 1..Len(s) : header \in SubHeaders(s[i])

RECURSIVE trimStart(_)
trimStart(s) ==
    IF s # <<>> /\ IsSpace(Head(s)) THEN trimStart(Tail(s)) ELSE s

RECURSIVE trimEnd(_)
trimEnd(s) ==
    IF s # <<>> /\ IsSpace(s[Len(s)]) THEN trimEnd(SubSeq(s, 1, Len(s) - 1)) ELSE s

\* String.prototype.trim
trim(s) == trimEnd(trimStart(s))

\* String.prototype.split(sep) for a one-token separator
RECURSIVE splitOn(_, _, _)
splitOn(s, sep, cur) ==
    IF s = <<>> THEN <<cur>>
    ELSE IF Head(s) = sep THEN <<cur>> \o splitOn(Tail(s), sep, <<>>)
    ELSE splitOn(Tail(s), sep, Append(cur, Head(s)))

splitLines(s) == splitOn(s, NL, <<>>)

\* String.prototype.split('\n\n'): non-overlapping matches, left to right
RECURSIVE splitOn2(_, _)
splitOn2(s, cur) ==
    IF s = <<>> THEN <<cur>>
    ELSE IF Len(s) >= 2 /\ s[1] = NL /\ s[2] = NL
         THEN <<cur>> \o splitOn2(SubSeq(s, 3, Len(s)), <<>>)
    ELSE splitOn2(Tail(s), Append(cur, Head(s)))

splitParagraphs(s) == splitOn2(s, <<>>)

startsWith(s, tok) == s # <<>> /\ Head(s) = tok

\* The regular expression /^\d+\./ : one or more digits, then a dot
RECURSIVE digitsThenDot(_, _)
digitsThenDot(s, seen) ==
    IF s = <<>> THEN FALSE
    ELSE IF IsDigit(Head(s)) THEN digitsThenDot(Tail(s), TRUE)
    ELSE seen /\ Head(s) = "."

testNumbered(s) == digitsThenDot(s, FALSE)

\* String.prototype.indexOf('.') as a 1-based position (0 when absent)
RECURSIVE indexOfDot(_, _)
indexOfDot(s, i) ==
    IF i > Len(s) THEN 0 ELSE IF s[i] = "." THEN i ELSE indexOfDot(s, i + 1)

\* String.prototype.substring(n) with n counted in tokens
substringFrom(s, n) == SubSeq(s, n + 1, Len(s))


(***************************************************************************)
(* CompletionGateway: services/aiService.ts                                *)
(*                                                                         *)
(* What one fetch() can do is a FetchOutcome: the request rejects          *)
(* (network error) or yields a response with a status and a body; the body *)
(* either fails to parse as JSON or is an object with or without a         *)
(* `choices` array.                                                        *)
(***************************************************************************)
Operations ==
    {"chatWithJournal", "chatWithAllJournals", "generateInsight",
     "generateReflectionQuestions", "continueReflectionDialog"}

\* The fixed string each operation returns from its catch block
Apology(op) ==
    CASE op = "chatWithJournal" ->
           <<"I apologize, but I'm having trouble processing your request right now. Please try again later.">>
      [] op = "chatWithAllJournals" ->
           <<"I apologize, but I'm having trouble processing your request right now. Please try again later.">>
      [] op = "generateInsight" ->
           <<"I apologize, but I'm having trouble analyzing your entries right now. Please try again later.">>
      [] op = "generateReflectionQuestions" ->
           <<"I apologize, but I'm having trouble generating reflection questions right now. Please try again later.">>
      [] op = "continueReflectionDialog" ->
           <<"I apologize, but I'm having trouble with our reflection dialog right now. Please try again later.">>

NetworkError == [network |-> FALSE, status |-> 0, parses |-> FALSE,
                 hasChoices |-> FALSE, choices |-> <<>>]

Response(status, parses, hasChoices, choices) ==
    [network |-> TRUE, status |-> status, parses |-> parses,
     hasChoices |-> hasChoices, choices |-> choices]

\* Response.ok: the status is in the range 200-299
responseOk(outcome) == outcome.status >= 200 /\ outcome.status <= 299

Threw == [threw |-> TRUE, value |-> <<>>]
Returned(v) == [threw |-> FALSE, value |-> v]

\* (mutant) the `!response.ok` check is missing
makeRequest_IgnoresStatus(outcome) ==
    IF ~outcome.network THEN Threw
    ELSE IF ~outcome.parses THEN Threw
    ELSE Returned(outcome)

\* AIService.makeRequest: throws on a rejected fetch, on !response.ok and on a
\* body that is not JSON; otherwise returns the parsed body
makeRequest(outcome) ==
    IF ~outcome.network THEN Threw
    ELSE IF ~responseOk(outcome) THEN Threw
    ELSE IF ~outcome.parses THEN Threw
    ELSE Returned(outcome)

\* response.choices[0].message.content: a TypeError when `choices` is absent
\* or empty
firstChoiceContent(response) ==
    IF ~response.hasChoices THEN Threw
    ELSE IF Len(response.choices) = 0 THEN Threw
    ELSE Returned(response.choices[1])

\* The body shared by the five operations:
\*   try { response = await makeRequest(messages);
\*         return response.choices[0].message.content }
\*   catch { return <apology> }
\* The result says whether the promise rejected and what it resolved to.
serviceCall(op, outcome) ==
    LET response == makeRequest(outcome) IN
    IF response.threw THEN [rejected |-> FALSE, value |-> Apology(op)]
    ELSE LET content == firstChoiceContent(response.value) IN
         IF content.threw THEN [rejected |-> FALSE, value |-> Apology(op)]
         ELSE [rejected |-> FALSE, value |-> content.value]

chatWithJournal(outcome) == serviceCall("chatWithJournal", outcome)
chatWithAllJournals(outcome) == serviceCall("chatWithAllJournals", outcome)
generateInsight(outcome) == serviceCall("generateInsight", outcome)
generateReflectionQuestions(outcome) == serviceCall("generateReflectionQuestions", outcome)
continueReflectionDialog(outcome) == serviceCall("continueReflectionDialog", outcome)

\* A gateway failure in the sense of the design: a transport error, a
\* non-success status, or a body without a usable first choice
GatewayFailed(outcome) ==
    \/ ~outcome.network
    \/ ~responseOk(outcome)
    \/ ~outcome.parses
    \/ ~outcome.hasChoices
    \/ Len(outcome.choices) = 0

\* ---- the five operations on their own ----
Statuses == {199, 200, 204, 299, 300, 404, 500}

Contents == { <<"reply">>, <<>> }

Bodies ==
    { [parses |-> FALSE, hasChoices |-> FALSE, choices |-> <<>>],
      [parses |-> TRUE,  hasChoices |-> FALSE, choices |-> <<>>],
      [parses |-> TRUE,  hasChoices |-> TRUE,  choices |-> <<>>] }
    \cup { [parses |-> TRUE, hasChoices |-> TRUE, choices |-> <<c>>] : c \in Contents }
    \cup { [parses |-> TRUE, hasChoices |-> TRUE, choices |-> << <<"reply">>, <<"second">> >>] }

FetchOutcomes ==
    {NetworkError}
    \cup { Response(st, b.parses, b.hasChoices, b.choices) : st \in Statuses, b \in Bodies }

NoOutcome == [network |-> FALSE, status |-> -1, parses |-> FALSE,
              hasChoices |-> FALSE, choices |-> <<>>]
NoSettlement == [rejected |-> FALSE, value |-> <<"(pending)">>]

operationResult(op, outcome) ==
    CASE op = "chatWithJournal"             -> chatWithJournal(outcome)
      [] op = "chatWithAllJournals"         -> chatWithAllJournals(outcome)
      [] op = "generateInsight"             -> generateInsight(outcome)
      [] op = "generateReflectionQuestions" -> generateReflectionQuestions(outcome)
      [] op = "continueReflectionDialog"    -> continueReflectionDialog(outcome)

SvcInit ==
    /\ svcPhase = "idle"
    /\ svcOp = "none"
    /\ svcOutcome = NoOutcome
    /\ svcResult = NoSettlement

\* An operation is called: it builds its messages and awaits makeRequest
ServiceCall(op) ==
    /\ svcPhase = "idle"
    /\ svcPhase' = "pending"
    /\ svcOp' = op
    /\ UNCHANGED <<svcOutcome, svcResult>>
    /\ UNCHANGED notSvc

\* fetch settles and the operation runs to its end
ServiceSettle(outcome) ==
    /\ svcPhase = "pending"
    /\ svcPhase' = "done"
    /\ svcOutcome' = outcome
    /\ svcResult' = operationResult(svcOp, outcome)
    /\ UNCHANGED svcOp
    /\ UNCHANGED notSvc

(***************************************************************************)
(* ResponseParser: useReflectionSession.ts, parseAnalysisResponse and      *)
(* extractBulletPoints                                                     *)
(***************************************************************************)
NegativeHeaders == <<"negative patterns", "patterns to address", "challenges">>
PositiveHeaders == <<"positive patterns", "strengths", "patterns to embrace">>
AffirmationHeaders == <<"affirmations", "daily affirmations">>
StepHeaders == <<"actionable steps", "steps", "actions">>

\* possibleHeaders.some(header => line.includes(header.toLowerCase()))
someHeader(line, possibleHeaders) ==
    \E h \in 1..Len(possibleHeaders) : includes(line, possibleHeaders[h])

\* possibleHeaders.some(header => header !== possibleHeaders[0] && line.includes(...))
someOtherHeader(line, possibleHeaders) ==
    \E h \in 1..Len(possibleHeaders) :
        possibleHeaders[h] # possibleHeaders[1] /\ includes(line, possibleHeaders[h])

\* The list-item test of the loop: a marker, or a line followed by a blank line
looksLikeItem(lines, i) ==
    LET t == trim(toLowerCase(lines[i])) IN
    \/ startsWith(t, "-")
    \/ startsWith(t, BULLET)
    \/ testNumbered(t)
    \/ (i + 1 <= Len(lines) /\ trim(lines[i + 1]) = <<>>)

\* "Clean up the bullet point": strip the marker, then a leading number
cleanPoint(line) ==
    LET p0 == trim(line)
        p1 == IF startsWith(p0, "-") \/ startsWith(p0, BULLET)
              THEN trim(substringFrom(p0, 1)) ELSE p0
    IN  IF testNumbered(p1) THEN trim(substringFrom(p1, indexOfDot(p1, 1))) ELSE p1

\* The for loop of extractBulletPoints, from line i on
RECURSIVE bulletLoop(_, _, _, _, _)
bulletLoop(lines, possibleHeaders, i, collecting, bulletPoints) ==
    IF i > Len(lines) THEN bulletPoints
    ELSE LET line == toLowerCase(lines[i]) IN
         IF ~collecting /\ someHeader(line, possibleHeaders)
         THEN bulletLoop(lines, possibleHeaders, i + 1, TRUE, bulletPoints)
         ELSE IF collecting /\ trim(line) = <<>>
         THEN bulletLoop(lines, possibleHeaders, i + 1, collecting, bulletPoints)
         ELSE IF collecting /\ trim(line) # <<>> /\ looksLikeItem(lines, i)
         THEN IF someOtherHeader(line, possibleHeaders)
              THEN bulletLoop(lines, possibleHeaders, i + 1, FALSE, bulletPoints)
              ELSE bulletLoop(lines, possibleHeaders, i + 1, collecting,
                              Append(bulletPoints, cleanPoint(line)))
         ELSE bulletLoop(lines, possibleHeaders, i + 1, collecting, bulletPoints)

extractBulletPoints(text, possibleHeaders) ==
    bulletLoop(splitLines(text), possibleHeaders, 1, FALSE, <<>>)

defaultAnalysis ==
    [negative_patterns |-> << <<"Need to parse AI response">> >>,
     positive_patterns |-> << <<"Need to parse AI response">> >>,
     affirmations      |-> << <<"I am growing and learning every day.">> >>,
     actionable_steps  |-> << <<"Reflect on these insights regularly">> >>,
     encouragement     |-> <<"Thank you for your honest reflections.">>]

\* `a || b` on strings: the empty string is falsy
orElse(a, b) == IF a = <<>> THEN b ELSE a

\* (mutant) the fallback is never substituted
listOrDefault_NoFallback(list, fallback) == list

\* `list.length ? list : fallback`
listOrDefault(list, fallback) == IF Len(list) # 0 THEN list ELSE fallback

parseAnalysisResponse(analysisResponse) ==
    LET negativePatterns == extractBulletPoints(analysisResponse, NegativeHeaders)
        positivePatterns == extractBulletPoints(analysisResponse, PositiveHeaders)
        affirmations     == extractBulletPoints(analysisResponse, AffirmationHeaders)
        actionableSteps  == extractBulletPoints(analysisResponse, StepHeaders)
        paragraphs       == splitParagraphs(analysisResponse)
        encouragement    == orElse(paragraphs[Len(paragraphs)],
                                   <<"Continue your journey with courage and compassion.">>)
    IN  [negative_patterns |-> listOrDefault(negativePatterns, defaultAnalysis.negative_patterns),
         positive_patterns |-> listOrDefault(positivePatterns, defaultAnalysis.positive_patterns),
         affirmations      |-> listOrDefault(affirmations, defaultAnalysis.affirmations),
         actionable_steps  |-> listOrDefault(actionableSteps, defaultAnalysis.actionable_steps),
         encouragement     |-> orElse(encouragement, defaultAnalysis.encouragement)]

\* extractQuestionFromAIResponse: aiResponse.trim()
extractQuestionFromAIResponse(aiResponse) == trim(aiResponse)

(***************************************************************************)
(* The parser on its own: every text over ParserAlphabet of at most        *)
(* MaxTextLen tokens, and the fixture of the design's section 8            *)
(***************************************************************************)
MaxTextLen == 4

ParserAlphabet ==
    {NL, SP, "-", "1", ".", "X", "Negative patterns", "challenges", "steps"}

FixtureText ==
    <<"Negative patterns", ":", NL, "-", SP, "overthinking", NL,
      "-", SP, "avoidance", NL, NL,
      "Positive patterns", ":", NL, "-", SP, "resilience", NL, NL,
      "Final thoughts", ".">>

BoundedTexts == UNION {[1..n -> ParserAlphabet] : n \in 0..MaxTextLen}

ParserInputs == BoundedTexts \cup {FixtureText}

ParserInit == pText \in ParserInputs /\ pResult = NoAnalysis

Parse ==
    /\ pResult = NoAnalysis
    /\ pResult' = parseAnalysisResponse(pText)
    /\ UNCHANGED pText
    /\ UNCHANGED notParse

(***************************************************************************)
(* ReflectionSessionOrchestrator: hooks/useReflectionSession.ts            *)
(*                                                                         *)
(* A call of startNewSession or answerCurrentQuestion runs up to its       *)
(* await in one step (StartCall, AnswerCall) and from the resolution of    *)
(* the gateway promise to its end in another (StartResolve,                *)
(* AnswerResolve).  Between the two the call sits in `calls` with the      *)
(* values its closure captured: useCallback rebuilds the callbacks on      *)
(* every change of currentSession and currentQuestion, so a call captures  *)
(* the state of the render it was issued from.  The effect on              *)
(* [currentSession] runs with every state update that sets the session.    *)
(* Question ids and timestamps are left out: nothing reads them.           *)
(***************************************************************************)
MaxSessions == 2      \* startNewSession calls in one behaviour
MaxFailures == 1      \* failed gateway requests in one behaviour
MaxOverlaps == 1      \* calls issued while another call is in flight
LastQuestionIndex == 9

Themes == {"authentic-self", "life-purpose"}
Answers == {"answer a", "answer b"}

themeName(themeId) ==
    CASE themeId = "authentic-self" -> "Authentic Self"
      [] themeId = "life-purpose"   -> "Life Purpose"

NoSession == [id |-> 0]
NoQuestion == [order |-> 0]
NoError == "null"
UNDEFINED == "undefined"

\* The calls awaiting the gateway: a bag, two calls may carry the same values
InFlight == BagToSet(calls)
Issue(call) == calls (+) SetToBag({call})
Settle(call) == calls (-) SetToBag({call})

\* What the model lets the gateway answer to the "first/next question" prompts
QuestionReplies == { <<"What does this theme mean to you", "?">>,
                     <<SP, "What does this theme mean to you", "?", NL>> }

\* ... and to the "final analysis" prompt
AnalysisReplies == { FixtureText, <<>>, <<"X", NL, NL>>,
                     <<"Steps", NL, "1", ".", SP, "X">> }

Failing == { NetworkError,
             Response(500, TRUE, TRUE, << <<"X">> >>),
             Response(200, FALSE, FALSE, <<>>),
             Response(200, TRUE, FALSE, <<>>),
             Response(200, TRUE, TRUE, <<>>) }

Succeeding(replies) == { Response(200, TRUE, TRUE, <<r>>) : r \in replies }

\* What the gateway may do with the request of a call
StartOutcomes == Failing \cup Succeeding(QuestionReplies)
AnswerOutcomes(session) ==
    Failing \cup Succeeding(IF session.current_question_index = LastQuestionIndex
                            THEN AnalysisReplies ELSE QuestionReplies)

\* The effect on [currentSession]: the question at current_question_index
questionOf(session) ==
    IF session = NoSession THEN NoQuestion
    ELSE IF session.current_question_index < Len(session.questions)
         THEN session.questions[session.current_question_index + 1]
         ELSE NoQuestion

\* ... and hasCompletedAllQuestions, which the effect only ever sets
completedAfterEffect(session, before) ==
    IF session = NoSession THEN before
    ELSE IF session.current_question_index < Len(session.questions) THEN before
         ELSE TRUE

\* (mutant) the new session starts past its first question
newSession_SkipsFirst(theme, aiResponse, id) ==
    [id |-> id,
     theme_id |-> theme,
     theme_name |-> themeName(theme),
     questions |-> << [question |-> extractQuestionFromAIResponse(aiResponse),
                       theme_id |-> theme,
                       order |-> 1,
                       answer |-> UNDEFINED] >>,
     current_question_index |-> 1,
     status |-> "in_progress",
     analysis |-> NoAnalysis]

\* startNewSession, after the await: the session it builds
newSession(theme, aiResponse, id) ==
    [id |-> id,
     theme_id |-> theme,
     theme_name |-> themeName(theme),
     questions |-> << [question |-> extractQuestionFromAIResponse(aiResponse),
                       theme_id |-> theme,
                       order |-> 1,
                       answer |-> UNDEFINED] >>,
     current_question_index |-> 0,
     status |-> "in_progress",
     analysis |-> NoAnalysis]

\* answerCurrentQuestion, before the await: updatedQuestions
updatedQuestions(session, answer) ==
    [session.questions EXCEPT ![session.current_question_index + 1].answer = answer]

\* (mutant) off by one: currentIndex === 8
isLastQuestion_Early(session) == session.current_question_index = LastQuestionIndex - 1

\* (mutant) off by one: currentIndex === 10
isLastQuestion_Late(session) == session.current_question_index = LastQuestionIndex + 1

\* const isLastQuestion = currentIndex === 9
isLastQuestion(session) == session.current_question_index = LastQuestionIndex

\* (mutant) the completed session is stored without its analysis
completedSession_NoAnalysis(session, answer, analysisResponse) ==
    [session EXCEPT !.questions = updatedQuestions(session, answer),
                    !.status = "completed",
                    !.current_question_index = session.current_question_index + 1]

\* answerCurrentQuestion, after the await, isLastQuestion branch
completedSession(session, answer, analysisResponse) ==
    [session EXCEPT !.questions = updatedQuestions(session, answer),
                    !.status = "completed",
                    !.analysis = parseAnalysisResponse(analysisResponse),
                    !.current_question_index = session.current_question_index + 1]

\* answerCurrentQuestion, after the await, the other branch
advancedSession(session, answer, aiResponse) ==
    [session EXCEPT
        !.questions = Append(updatedQuestions(session, answer),
                             [question |-> extractQuestionFromAIResponse(aiResponse),
                              theme_id |-> session.theme_id,
                              order |-> session.current_question_index + 2,
                              answer |-> UNDEFINED]),
        !.current_question_index = session.current_question_index + 1]

nextSession(session, answer, aiResponse) ==
    IF isLastQuestion(session)
    THEN completedSession(session, answer, aiResponse)
    ELSE advancedSession(session, answer, aiResponse)

\* Bookkeeping of the model's bounds.  A behaviour explores overlapping calls
\* or failing gateway requests, not both: to the hook a failed request is a
\* resolved one whose text is the apology (see serviceCall).
CountOverlap ==
    IF InFlight # {}
    THEN overlaps < MaxOverlaps /\ failures = 0 /\ overlaps' = overlaps + 1
    ELSE overlaps' = overlaps

CountFailure(outcome) ==
    IF GatewayFailed(outcome)
    THEN failures < MaxFailures /\ overlaps = 0 /\ failures' = failures + 1
    ELSE failures' = failures

StartsInFlight ==
    BagCardinality([c \in {d \in InFlight : d.kind = "start"} |-> CopiesIn(c, calls)])

ReflInit ==
    /\ currentSession = NoSession
    /\ currentQuestion = NoQuestion
    /\ hasCompletedAllQuestions = FALSE
    /\ error = NoError
    /\ calls = EmptyBag
    /\ sessionsStarted = 0
    /\ failures = 0
    /\ overlaps = 0
    /\ answered = 0
    /\ last = [op |-> "none", failed |-> FALSE, theme |-> "none"]

\* startNewSession(theme) up to `await AIService.generateReflectionQuestions`
StartCall(theme) ==
    /\ sessionsStarted + StartsInFlight < MaxSessions
    /\ CountOverlap
    /\ error' = NoError
    /\ calls' = Issue([kind |-> "start", theme |-> theme,
                        overAnswer |-> \E c \in InFlight : c.kind = "answer"])
    /\ UNCHANGED <<currentSession, currentQuestion, hasCompletedAllQuestions,
                   sessionsStarted, failures, answered, last>>
    /\ UNCHANGED notRefl

\* startNewSession from the resolution of the gateway promise on
StartResolve(call, outcome) ==
    /\ call.kind = "start"
    /\ CountFailure(outcome)
    /\ LET aiResponse == generateReflectionQuestions(outcome)
           session == newSession(call.theme, aiResponse.value, sessionsStarted + 1)
       IN  /\ ~aiResponse.rejected
           /\ currentSession' = session
           /\ currentQuestion' = questionOf(session)
           /\ hasCompletedAllQuestions' = completedAfterEffect(session, FALSE)
    /\ sessionsStarted' = sessionsStarted + 1
    /\ calls' = Settle(call)
    /\ answered' = 0
    /\ last' = [op |-> "start", failed |-> GatewayFailed(outcome), theme |-> call.theme,
                overAnswer |-> call.overAnswer]
    /\ UNCHANGED <<error, overlaps>>
    /\ UNCHANGED notRefl

\* (mutant) the guard marks the interview as completed
AnswerGuard_Completes(answer) ==
    /\ currentSession = NoSession \/ currentQuestion = NoQuestion
    /\ error' = "No active question to answer"
    /\ hasCompletedAllQuestions' = TRUE
    /\ last' = [op |-> "answerGuard", failed |-> FALSE, theme |-> "none"]
    /\ UNCHANGED <<currentSession, currentQuestion, calls, sessionsStarted, failures,
                   overlaps, answered>>
    /\ UNCHANGED notRefl

\* answerCurrentQuestion(answer) when its guard returns early
AnswerGuard(answer) ==
    /\ currentSession = NoSession \/ currentQuestion = NoQuestion
    /\ error' = "No active question to answer"
    /\ last' = [op |-> "answerGuard", failed |-> FALSE, theme |-> "none"]
    /\ UNCHANGED <<currentSession, currentQuestion, hasCompletedAllQuestions,
                   calls, sessionsStarted, failures, overlaps, answered>>
    /\ UNCHANGED notRefl

\* answerCurrentQuestion(answer) up to `await AIService.continueReflectionDialog`
AnswerCall(answer) ==
    /\ currentSession # NoSession /\ currentQuestion # NoQuestion
    /\ CountOverlap
    /\ error' = NoError
    /\ calls' = Issue([kind |-> "answer", session |-> currentSession, answer |-> answer])
    /\ UNCHANGED <<currentSession, currentQuestion, hasCompletedAllQuestions,
                   sessionsStarted, failures, answered, last>>
    /\ UNCHANGED notRefl

\* answerCurrentQuestion from the resolution of the gateway promise on
AnswerResolve(call, outcome) ==
    /\ call.kind = "answer"
    /\ CountFailure(outcome)
    /\ LET aiResponse == continueReflectionDialog(outcome)
           session == nextSession(call.session, call.answer, aiResponse.value)
       IN  /\ ~aiResponse.rejected
           /\ currentSession' = session
           /\ currentQuestion' = questionOf(session)
           /\ hasCompletedAllQuestions' =
                 completedAfterEffect(session,
                    hasCompletedAllQuestions \/ isLastQuestion(call.session))
    /\ calls' = Settle(call)
    /\ answered' = answered + 1
    /\ last' = [op |-> "answer", failed |-> GatewayFailed(outcome), theme |-> "none"]
    /\ UNCHANGED <<error, sessionsStarted, overlaps>>
    /\ UNCHANGED notRefl

\* The texts the model lets the user submit: the text is opaque to the hook,
\* so it is varied only where two calls can meet on one question
AnswerChoices == IF InFlight = {} THEN {"answer a"} ELSE Answers

(***************************************************************************)
(* ConversationManager: hooks/useJournalChat (src/unnamed/part_007)        *)
(***************************************************************************)
MaxClock == 2
MaxCalls == 2
MaxEntryChanges == 1

NoUser == "none"
NoEntry == "none"
NoConversation == 0

Range(s) == { s[i] : i \in DOMAIN s }

\* Number.prototype.toString on a clock value: its decimal digits
Digits == <<"0", "1", "2", "3", "4", "5", "6", "7", "8", "9">>

RECURSIVE toString(_)
toString(n) ==
    IF n < 10 THEN <<Digits[n + 1]>>
    ELSE toString(n \div 10) \o <<Digits[(n % 10) + 1]>>

\* Date.prototype.toISOString of the clock value
toISOString(n) == <<"T">> \o toString(n)

ChatMessage(id, text, sender, timestamp) ==
    [id |-> id, text |-> text, sender |-> sender, timestamp |-> timestamp]

NoMessage == ChatMessage(<<>>, <<>>, "none", <<>>)

\* ---- JSON.stringify / JSON.parse on message lists, token by token ----
Tok(t, v) == [t |-> t, v |-> v]
Punct(t) == Tok(t, <<>>)

encodeMessage(m) ==
    << Punct("{"),
       Tok("key", <<"id">>), Tok("str", m.id), Punct(","),
       Tok("key", <<"text">>), Tok("str", m.text), Punct(","),
       Tok("key", <<"sender">>), Tok("str", <<m.sender>>), Punct(","),
       Tok("key", <<"timestamp">>), Tok("str", m.timestamp),
       Punct("}") >>

RECURSIVE encodeList(_)
encodeList(list) ==
    IF list = <<>> THEN <<>>
    ELSE IF Len(list) = 1 THEN encodeMessage(list[1])
    ELSE encodeMessage(Head(list)) \o <<Punct(",")>> \o encodeList(Tail(list))

JSONstringify(list) == <<Punct("[")>> \o encodeList(list) \o <<Punct("]")>>

SyntaxError == [threw |-> TRUE, kind |-> "none", list |-> <<>>]
Parsed(kind, list) == [threw |-> FALSE, kind |-> kind, list |-> list]

isMessageAt(text, i) ==
    /\ i + 12 <= Len(text)
    /\ text[i] = Punct("{")
    /\ text[i + 1] = Tok("key", <<"id">>)
    /\ text[i + 2].t = "str"
    /\ text[i + 3] = Punct(",")
    /\ text[i + 4] = Tok("key", <<"text">>)
    /\ text[i + 5].t = "str"
    /\ text[i + 6] = Punct(",")
    /\ text[i + 7] = Tok("key", <<"sender">>)
    /\ text[i + 8].t = "str"
    /\ Len(text[i + 8].v) = 1
    /\ text[i + 9] = Punct(",")
    /\ text[i + 10] = Tok("key", <<"timestamp">>)
    /\ text[i + 11].t = "str"
    /\ text[i + 12] = Punct("}")

decodeMessageAt(text, i) ==
    ChatMessage(text[i + 2].v, text[i + 5].v, Head(text[i + 8].v), text[i + 11].v)

RECURSIVE parseElements(_, _, _)
parseElements(text, i, acc) ==
    IF ~isMessageAt(text, i) THEN SyntaxError
    ELSE LET acc2 == Append(acc, decodeMessageAt(text, i))
             j == i + 13
         IN  IF j = Len(text) /\ text[j] = Punct("]") THEN Parsed("array", acc2)
             ELSE IF j < Len(text) /\ text[j] = Punct(",")
                  THEN parseElements(text, j + 1, acc2)
             ELSE SyntaxError

JSONparse(text) ==
    IF text = <<>> THEN SyntaxError
    ELSE IF text = <<Punct("["), Punct("]")>> THEN Parsed("array", <<>>)
    ELSE IF text[1] = Punct("[") THEN parseElements(text, 2, <<>>)
    ELSE IF text = <<Punct("{"), Punct("}")>> THEN Parsed("object", <<>>)
    ELSE SyntaxError

\* ---- the chat_conversations table ----
\* the `messages` column: a native array, a string, or anything else
StoredArray(list) == [kind |-> "array", list |-> list, text |-> <<>>]
StoredString(text) == [kind |-> "string", list |-> <<>>, text |-> text]
StoredOther == [kind |-> "other", list |-> <<>>, text |-> <<>>]

\* `title` before any bookmark
NoTitle == <<>>

Row(user, entryIds, isAll, stored, lastUpdated) ==
    [user_id |-> user, entry_ids |-> entryIds, is_all_entries |-> isAll,
     messages |-> stored, last_updated |-> lastUpdated,
     is_bookmarked |-> FALSE, title |-> NoTitle]

\* a load path that takes native arrays only
decodeMessages_ArrayOnly(stored) ==
    IF stored.kind = "array" THEN stored.list ELSE <<>>

\* loadRecentConversation 99-120, selectAllEntries 372-386
decodeMessages(stored) ==
    IF stored.kind = "array" THEN stored.list
    ELSE IF stored.kind = "string"
         THEN LET parsedMessages == JSONparse(stored.text)
              IN  IF parsedMessages.threw THEN <<>>
                  ELSE IF parsedMessages.kind = "array" THEN parsedMessages.list
                  ELSE <<>>
    ELSE <<>>

\* `.order('last_updated', {ascending: false}).limit(1)` over the rows in S
mostRecent(st, S) ==
    { i \in S : \A j \in S : st[j].last_updated <= st[i].last_updated }

\* the saveMessages effect, run on the state an operation leaves
saved(st, uid, cid, init, msgs, t) ==
    IF uid = NoUser \/ cid = NoConversation \/ init \/ Len(msgs) = 0 THEN st
    ELSE IF cid \notin DOMAIN st THEN st
    ELSE [st EXCEPT ![cid].messages = StoredString(JSONstringify(msgs)),
                    ![cid].last_updated = t]

\* ---- what a signed-in user may find stored ----
StoredGreeting == ChatMessage(toString(0), <<"stored greeting">>, "ai", toISOString(0))

StoredFormats ==
    { StoredArray(<<StoredGreeting>>),
      StoredString(JSONstringify(<<StoredGreeting>>)),
      StoredString(<<Punct("[")>>),
      StoredString(<<Punct("{"), Punct("}")>>),
      StoredOther }

\* nothing; one conversation, for all entries in each stored format or for one
\* entry; or the two all-entries conversations that two overlapping
\* selectAllEntries calls of an earlier session left, last written together
InitialStores ==
    { <<>> }
    \cup { << Row("u1", <<>>, TRUE, m, 0) >> : m \in StoredFormats }
    \cup { << Row("u1", <<"e1">>, FALSE, StoredString(JSONstringify(<<StoredGreeting>>)), 0) >> }
    \cup { << Row("u1", <<>>, TRUE, StoredString(JSONstringify(<<StoredGreeting>>)), 0),
              Row("u1", <<>>, TRUE, StoredString(JSONstringify(<<StoredGreeting>>)), 0) >> }

SendTexts == { <<"hello">>, <<SP>> }

\* the entry collections useJournal may hand over, what a caller may pass to
\* selectEntry, and what the upsert's reply may be
EntryLists == { <<>>, <<"e1">> }
SelectableEntries == { NoEntry, "e1" }
UpsertReplies == {"error", "null", "rows"}

ChatOutcomes == { NetworkError, Response(200, TRUE, TRUE, << <<"reply">> >>) }

\* ---- messages the hook writes ----
InitialMessage(isAll, t) ==
    ChatMessage(toString(t),
        IF isAll
        THEN <<"I'm ready to discuss all your journal entries. What would you like to explore about your journaling history?">>
        ELSE <<"I'm looking at your journal entry. What would you like to discuss about it?">>,
        "ai", toISOString(t))

FallbackMessage(t) ==
    ChatMessage(toString(t),
        <<"I'm ready to discuss all your journal entries. What patterns or insights would you like to explore?">>,
        "ai", toISOString(t))

userMessageOf(text, t) == ChatMessage(toString(t), text, "user", toISOString(t))
aiMessageOf(aiResponse, t) == ChatMessage(toString(t + 1), aiResponse, "ai", toISOString(t))

\* which way generateAIResponse goes, from the state its closure holds
responseBranch(isAll, selected, entriesData) ==
    IF isAll
    THEN IF Len(entriesData) = 0 THEN "noEntries" ELSE "chatWithAllJournals"
    ELSE IF selected # NoEntry THEN "chatWithJournal"
    ELSE "noSelection"

localResponse(branch) ==
    IF branch = "noEntries"
    THEN <<"I don't see any journal entries to analyze. Try adding some entries first.">>
    ELSE <<"I'm not sure which journal entry we're discussing. Please select an entry first.">>

\* generateAIResponse on a gateway branch: the service's value, its own
\* catch for a rejection
generateAIResponse(op, outcome) ==
    LET settled == operationResult(op, outcome)
    IN  IF settled.rejected THEN <<"I'm sorry, I encountered an error. Please try again.">>
        ELSE settled.value

\* `setMessages(prev => [...prev, aiMessage])`
withAiMessage(prev, aiMessage) == Append(prev, aiMessage)

\* ---- calls awaiting their reply ----
chatCallOn(kind, op, msg, cid, entry, list, flag) ==
    [kind |-> kind, op |-> op, msg |-> msg, cid |-> cid, entry |-> entry,
     list |-> list, flag |-> flag]
chatCall(kind, op, msg) == chatCallOn(kind, op, msg, NoConversation, NoEntry, <<>>, FALSE)
ChatInFlight == BagToSet(chatCalls)
one(call) == SetToBag({call})

\* the fetchBookmarkStatus effect: a change of conversationId to a bound id
\* issues a read of that row's is_bookmarked
withStatusFetch(bag, st, uid, oldCid, newCid) ==
    IF uid = NoUser \/ newCid = NoConversation \/ newCid = oldCid THEN bag
    ELSE bag (+) one(chatCallOn("bookmarkStatus",
                                IF newCid \in DOMAIN st THEN "row" ELSE "norow",
                                NoMessage, newCid, NoEntry, <<>>,
                                newCid \in DOMAIN st /\ st[newCid].is_bookmarked))

\* the handleEntryDeleted effect, run on the state an operation leaves
entryDeleted(selected, entriesData) ==
    selected # NoEntry /\ selected \notin Range(entriesData)
selectedAfterEffect(selected, entriesData) ==
    IF entryDeleted(selected, entriesData) THEN NoEntry ELSE selected
allModeAfterEffect(isAll, selected, entriesData) ==
    IF entryDeleted(selected, entriesData) THEN TRUE ELSE isAll

ChatLast(op, user, failed) == [op |-> op, user |-> user, failed |-> failed]

\* history of the calls made in succession
NoHist == [stage |-> "none", cid |-> NoConversation, rows |-> 0,
           bmId |-> NoConversation, bmCount |-> 0,
           gone |-> FALSE, before |-> NoConversation, entry |-> NoEntry]

\* No one signed in, nothing stored: the hook at rest
ChatIdle ==
    /\ userId = NoUser
    /\ entries = <<>>
    /\ messages = <<>>
    /\ isLoading = FALSE
    /\ selectedEntry = NoEntry
    /\ isAllEntriesMode = FALSE
    /\ conversationId = NoConversation
    /\ initializing = TRUE
    /\ isBookmarked = FALSE
    /\ load = [phase |-> "off", entryId |-> NoEntry]
    /\ store = <<>>
    /\ now = 1
    /\ chatCalls = EmptyBag
    /\ calls_made = 0
    /\ entryChanges = 0
    /\ chatLast = ChatLast("none", NoMessage, FALSE)
    /\ hist = NoHist

\* The hook after its first render: state at its useState defaults, the
\* initial load issued when a user is signed in
ChatInit ==
    /\ userId \in {NoUser, "u1"}
    /\ entries \in IF userId = NoUser THEN { <<>> } ELSE { <<>>, <<"e1">> }
    /\ store \in IF userId = NoUser THEN { <<>> } ELSE InitialStores
    /\ messages = <<>>
    /\ isLoading = FALSE
    /\ selectedEntry = NoEntry
    /\ isAllEntriesMode = FALSE
    /\ conversationId = NoConversation
    /\ initializing = TRUE
    /\ isBookmarked = FALSE
    /\ load = [phase |-> IF userId = NoUser THEN "off" ELSE "query", entryId |-> NoEntry]
    /\ now = 1
    /\ chatCalls = EmptyBag
    /\ calls_made = 0
    /\ entryChanges = 0
    /\ chatLast = ChatLast("none", NoMessage, FALSE)
    /\ hist = NoHist

\* The clock moves on
Tick ==
    /\ now < MaxClock
    /\ now' = now + 1
    /\ UNCHANGED <<userId, entries, messages, isLoading, selectedEntry, isAllEntriesMode,
                   conversationId, initializing, isBookmarked, load, store, chatCalls,
                   calls_made, entryChanges, chatLast, hist>>
    /\ UNCHANGED notChat

\* useJournal hands the hook another entry list (loaded, added, deleted)
EntriesChange(newEntries) ==
    /\ userId # NoUser
    /\ newEntries # entries
    /\ entryChanges < MaxEntryChanges
    /\ entryChanges' = entryChanges + 1
    /\ entries' = newEntries
    /\ selectedEntry' = selectedAfterEffect(selectedEntry, newEntries)
    /\ isAllEntriesMode' = allModeAfterEffect(isAllEntriesMode, selectedEntry, newEntries)
    /\ chatLast' = ChatLast("entries", NoMessage, FALSE)
    /\ hist' = NoHist
    /\ UNCHANGED <<userId, messages, isLoading, conversationId, initializing, isBookmarked,
                   load, store, now, chatCalls, calls_made>>
    /\ UNCHANGED notChat

\* loadRecentConversation: the query fails, or finds no conversation
LoadNothing(queryError) ==
    /\ load.phase = "query"
    /\ queryError \/ { i \in DOMAIN store : store[i].user_id = userId } = {}
    /\ initializing' = FALSE
    /\ load' = [phase |-> "done", entryId |-> NoEntry]
    /\ store' = saved(store, userId, conversationId, FALSE, messages, now)
    /\ chatLast' = ChatLast("load", NoMessage, queryError)
    /\ hist' = NoHist
    /\ UNCHANGED <<userId, entries, messages, isLoading, selectedEntry, isAllEntriesMode,
                   conversationId, isBookmarked, now, chatCalls, calls_made, entryChanges>>
    /\ UNCHANGED notChat

\* loadRecentConversation: the query returns the most recent conversation
LoadConversation(row) ==
    /\ load.phase = "query"
    /\ row \in mostRecent(store, { i \in DOMAIN store : store[i].user_id = userId })
    /\ LET conversation == store[row]
           fetchEntry == ~conversation.is_all_entries /\ Len(conversation.entry_ids) > 0
       IN  /\ conversationId' = row
           /\ messages' = decodeMessages(conversation.messages)
           /\ isAllEntriesMode' = conversation.is_all_entries
           /\ initializing' = fetchEntry
           /\ load' = IF fetchEntry
                      THEN [phase |-> "entry", entryId |-> conversation.entry_ids[1]]
                      ELSE [phase |-> "done", entryId |-> NoEntry]
           /\ store' = saved(store, userId, row, fetchEntry,
                             decodeMessages(conversation.messages), now)
    /\ chatCalls' = withStatusFetch(chatCalls, store, userId, conversationId, row)
    /\ chatLast' = ChatLast("load", NoMessage, FALSE)
    /\ hist' = NoHist
    /\ UNCHANGED <<userId, entries, isLoading, selectedEntry, isBookmarked, now,
                   calls_made, entryChanges>>
    /\ UNCHANGED notChat

\* loadRecentConversation: the bound entry's row arrives, or does not
LoadEntry(found) ==
    /\ load.phase = "entry"
    /\ LET fetched == IF found THEN load.entryId ELSE selectedEntry
       IN  /\ selectedEntry' = selectedAfterEffect(fetched, entries)
           /\ isAllEntriesMode' = allModeAfterEffect(isAllEntriesMode, fetched, entries)
    /\ initializing' = FALSE
    /\ load' = [phase |-> "done", entryId |-> NoEntry]
    /\ store' = saved(store, userId, conversationId, FALSE, messages, now)
    /\ chatLast' = ChatLast("load", NoMessage, ~found)
    /\ hist' = NoHist
    /\ UNCHANGED <<userId, entries, messages, isLoading, conversationId, isBookmarked, now,
                   chatCalls, calls_made, entryChanges>>
    /\ UNCHANGED notChat

\* sendMessage: blank text or nobody signed in
SendIgnored(text) ==
    /\ trim(text) = <<>> \/ userId = NoUser
    /\ calls_made < MaxCalls
    /\ calls_made' = calls_made + 1
    /\ chatLast' = ChatLast("sendIgnored", NoMessage, FALSE)
    /\ hist' = NoHist
    /\ UNCHANGED <<userId, entries, messages, isLoading, selectedEntry, isAllEntriesMode,
                   conversationId, initializing, isBookmarked, load, store, now, chatCalls,
                   entryChanges>>
    /\ UNCHANGED notChat

\* sendMessage where generateAIResponse answers without the gateway: the
\* call runs to its end before any other event is handled
SendLocal(text, elapsed) ==
    /\ trim(text) # <<>> /\ userId # NoUser
    /\ calls_made < MaxCalls
    /\ now + elapsed <= MaxClock
    /\ LET branch == responseBranch(isAllEntriesMode, selectedEntry, entries)
           userMessage == userMessageOf(text, now)
           aiMessage == aiMessageOf(localResponse(branch), now + elapsed)
           after == withAiMessage(Append(messages, userMessage), aiMessage)
       IN  /\ branch \in {"noEntries", "noSelection"}
           /\ messages' = after
           /\ store' = saved(store, userId, conversationId, initializing, after, now + elapsed)
           /\ chatLast' = ChatLast("sendResolved", userMessage, FALSE)
    /\ now' = now + elapsed
    /\ isLoading' = FALSE
    /\ calls_made' = calls_made + 1
    /\ hist' = NoHist
    /\ UNCHANGED <<userId, entries, selectedEntry, isAllEntriesMode, conversationId,
                   initializing, isBookmarked, load, chatCalls, entryChanges>>
    /\ UNCHANGED notChat

\* sendMessage up to its await of the gateway
SendCall(text) ==
    /\ trim(text) # <<>> /\ userId # NoUser
    /\ calls_made < MaxCalls
    /\ LET branch == responseBranch(isAllEntriesMode, selectedEntry, entries)
           userMessage == userMessageOf(text, now)
       IN  /\ branch \in {"chatWithAllJournals", "chatWithJournal"}
           /\ messages' = Append(messages, userMessage)
           /\ store' = saved(store, userId, conversationId, initializing,
                             Append(messages, userMessage), now)
           /\ chatCalls' = chatCalls (+) one(chatCall("send", branch, userMessage))
           /\ chatLast' = ChatLast("sendCalled", userMessage, FALSE)
    /\ isLoading' = TRUE
    /\ calls_made' = calls_made + 1
    /\ hist' = NoHist
    /\ UNCHANGED <<userId, entries, selectedEntry, isAllEntriesMode, conversationId,
                   initializing, isBookmarked, load, now, entryChanges>>
    /\ UNCHANGED notChat

\* sendMessage from the gateway's settling to its end
SendResolve(call, outcome) ==
    /\ call \in ChatInFlight
    /\ call.kind = "send"
    /\ chatCalls' = chatCalls (-) one(call)
    /\ LET aiMessage == aiMessageOf(generateAIResponse(call.op, outcome), now)
       IN  /\ messages' = withAiMessage(messages, aiMessage)
           /\ store' = saved(store, userId, conversationId, initializing,
                             withAiMessage(messages, aiMessage), now)
    /\ isLoading' = FALSE
    /\ chatLast' = ChatLast("sendResolved", call.msg, GatewayFailed(outcome))
    /\ hist' = NoHist
    /\ UNCHANGED <<userId, entries, selectedEntry, isAllEntriesMode, conversationId,
                   initializing, isBookmarked, load, now, calls_made, entryChanges>>
    /\ UNCHANGED notChat

\* clearChat
ClearChat ==
    /\ userId # NoUser
    /\ calls_made < MaxCalls
    /\ calls_made' = calls_made + 1
    /\ messages' = <<>>
    /\ selectedEntry' = NoEntry
    /\ isAllEntriesMode' = FALSE
    /\ conversationId' = NoConversation
    /\ chatLast' = ChatLast("clearChat", NoMessage, FALSE)
    /\ hist' = NoHist
    /\ UNCHANGED <<userId, entries, isLoading, initializing, isBookmarked, load, store,
                   now, chatCalls, entryChanges>>
    /\ UNCHANGED notChat

\* selectAllEntries up to its await of the query
SelectAllCall ==
    /\ userId # NoUser
    /\ calls_made < MaxCalls
    /\ isLoading' = TRUE
    /\ selectedEntry' = NoEntry
    /\ isAllEntriesMode' = TRUE
    /\ chatCalls' = chatCalls (+) one(chatCallOn("selectAllQuery", "none", NoMessage,
                                                 conversationId, NoEntry, <<>>,
                                                 hist.stage \in {"resolved", "second"}))
    /\ calls_made' = calls_made + 1
    /\ chatLast' = ChatLast("selectAllCalled", NoMessage, FALSE)
    /\ hist' = IF hist.stage \in {"resolved", "second"}
               THEN [NoHist EXCEPT !.stage = "called", !.cid = conversationId,
                                   !.rows = Len(store)]
               ELSE NoHist
    /\ UNCHANGED <<userId, entries, messages, conversationId, initializing, isBookmarked,
                   load, store, now, entryChanges>>
    /\ UNCHANGED notChat

\* selectAllEntries: the query fails; the catch writes the fallback message
SelectAllFailed(call) ==
    /\ call \in ChatInFlight
    /\ call.kind \in {"selectAllQuery", "selectAllInsert"}
    /\ chatCalls' = chatCalls (-) one(call)
    /\ messages' = <<FallbackMessage(now)>>
    /\ store' = saved(store, userId, conversationId, initializing,
                      <<FallbackMessage(now)>>, now)
    /\ isLoading' = FALSE
    /\ chatLast' = ChatLast("selectAll", NoMessage, TRUE)
    /\ hist' = NoHist
    /\ UNCHANGED <<userId, entries, selectedEntry, isAllEntriesMode, conversationId,
                   initializing, isBookmarked, load, now, calls_made, entryChanges>>
    /\ UNCHANGED notChat

\* selectAllEntries: the query returns the most recent all-entries conversation
SelectAllExisting(call, row) ==
    /\ call \in ChatInFlight
    /\ call.kind = "selectAllQuery"
    /\ row \in mostRecent(store, { i \in DOMAIN store :
                                      store[i].user_id = userId /\ store[i].is_all_entries })
    /\ chatCalls' = withStatusFetch(chatCalls (-) one(call), store, userId,
                                    conversationId, row)
    /\ conversationId' = row
    /\ messages' = decodeMessages(store[row].messages)
    /\ store' = saved(store, userId, row, initializing,
                      decodeMessages(store[row].messages), now)
    /\ isLoading' = FALSE
    /\ chatLast' = ChatLast("selectAll", NoMessage, FALSE)
    /\ hist' = IF call.flag /\ hist.stage = "called"
               THEN [hist EXCEPT !.stage = "second"]
               ELSE [NoHist EXCEPT !.stage = "resolved"]
    /\ UNCHANGED <<userId, entries, selectedEntry, isAllEntriesMode, initializing,
                   isBookmarked, load, now, calls_made, entryChanges>>
    /\ UNCHANGED notChat

\* selectAllEntries: the query finds none; createNewConversation builds its
\* greeting and awaits the insert
SelectAllCreate(call) ==
    /\ call \in ChatInFlight
    /\ call.kind = "selectAllQuery"
    /\ { i \in DOMAIN store : store[i].user_id = userId /\ store[i].is_all_entries } = {}
    /\ chatCalls' = (chatCalls (-) one(call))
                    (+) one(chatCallOn("selectAllInsert", "none", InitialMessage(TRUE, now),
                                       call.cid, NoEntry, <<>>, call.flag))
    /\ chatLast' = ChatLast("selectAllCreating", NoMessage, FALSE)
    /\ hist' = IF call.flag /\ hist.stage = "called" THEN hist ELSE NoHist
    /\ UNCHANGED <<userId, entries, messages, isLoading, selectedEntry, isAllEntriesMode,
                   conversationId, initializing, isBookmarked, load, store, now,
                   calls_made, entryChanges>>
    /\ UNCHANGED notChat

\* selectAllEntries: the insert returns the new row's id
SelectAllCreated(call) ==
    /\ call \in ChatInFlight
    /\ call.kind = "selectAllInsert"
    /\ LET inserted == Append(store, Row(userId, <<>>, TRUE,
                                         StoredString(JSONstringify(<<call.msg>>)), now))
           newConversationId == Len(inserted)
       IN  /\ messages' = <<call.msg>>
           /\ conversationId' = newConversationId
           /\ store' = saved(inserted, userId, newConversationId, initializing,
                             <<call.msg>>, now)
           /\ chatCalls' = withStatusFetch(chatCalls (-) one(call), inserted, userId,
                                           conversationId, newConversationId)
    /\ isLoading' = FALSE
    /\ chatLast' = ChatLast("selectAll", NoMessage, FALSE)
    /\ hist' = IF call.flag /\ hist.stage = "called"
               THEN [hist EXCEPT !.stage = "second"]
               ELSE [NoHist EXCEPT !.stage = "resolved"]
    /\ UNCHANGED <<userId, entries, selectedEntry, isAllEntriesMode, initializing,
                   isBookmarked, load, now, calls_made, entryChanges>>
    /\ UNCHANGED notChat

\* selectEntry: nobody signed in, or no entry handed in; the catch clears the
\* selection and the call rejects
SelectEntryRejected(entry) ==
    /\ userId = NoUser \/ entry = NoEntry
    /\ calls_made < MaxCalls
    /\ calls_made' = calls_made + 1
    /\ selectedEntry' = NoEntry
    /\ chatLast' = ChatLast("selectEntry", NoMessage, TRUE)
    /\ hist' = NoHist
    /\ UNCHANGED <<userId, entries, messages, isLoading, isAllEntriesMode, conversationId,
                   initializing, isBookmarked, load, store, now, chatCalls, entryChanges>>
    /\ UNCHANGED notChat

\* selectEntry up to its await of the upsert
SelectEntryCall(entry) ==
    /\ userId # NoUser /\ entry # NoEntry
    /\ calls_made < MaxCalls
    /\ calls_made' = calls_made + 1
    /\ messages' = <<>>
    /\ selectedEntry' = selectedAfterEffect(entry, entries)
    /\ isAllEntriesMode' = allModeAfterEffect(FALSE, entry, entries)
    /\ chatCalls' = chatCalls (+) one(chatCallOn("selectEntryUpsert", "none", NoMessage,
                                                 conversationId, entry, <<>>, FALSE))
    /\ chatLast' = ChatLast("selectEntryCalled", NoMessage, FALSE)
    /\ hist' = NoHist
    /\ UNCHANGED <<userId, entries, isLoading, conversationId, initializing, isBookmarked,
                   load, store, now, entryChanges>>
    /\ UNCHANGED notChat

\* the row `upsert(..., {onConflict: 'id'})` leaves: the bound row rewritten,
\* or a row under a fresh uuid with the column defaults
upserted(st, uid, cid, entry, t) ==
    IF cid # NoConversation /\ cid \in DOMAIN st
    THEN [st EXCEPT ![cid].user_id = uid, ![cid].entry_ids = <<entry>>,
                    ![cid].is_all_entries = FALSE, ![cid].last_updated = t]
    ELSE Append(st, Row(uid, <<entry>>, FALSE, StoredArray(<<>>), t))
upsertedId(st, cid) ==
    IF cid # NoConversation /\ cid \in DOMAIN st THEN cid ELSE Len(st) + 1

\* selectEntry: the upsert replies.  It carries no `.select()`: the reply's
\* data is null, or the written rows under a client that returns them
SelectEntryUpserted(call, reply) ==
    /\ call \in ChatInFlight
    /\ call.kind = "selectEntryUpsert"
    /\ reply \in {"error", "null", "rows"}
    /\ LET written == upserted(store, userId, call.cid, call.entry, now)
           rowId == upsertedId(store, call.cid)
           bound == IF reply = "rows" THEN rowId ELSE NoConversation
       IN  IF reply = "error"
           THEN /\ selectedEntry' = NoEntry
                /\ chatCalls' = chatCalls (-) one(call)
                /\ chatLast' = ChatLast("selectEntry", NoMessage, TRUE)
                /\ hist' = NoHist
                /\ UNCHANGED <<conversationId, store>>
           ELSE /\ conversationId' = bound
                /\ store' = saved(written, userId, bound, initializing, messages, now)
                /\ chatCalls' = withStatusFetch(
                       IF reply = "rows"
                       THEN (chatCalls (-) one(call))
                            (+) one(chatCallOn("selectEntryMessages", "none", NoMessage,
                                               rowId, call.entry, <<>>, FALSE))
                       ELSE chatCalls (-) one(call),
                       written, userId, conversationId, bound)
                /\ chatLast' = ChatLast(IF reply = "rows" THEN "selectEntryLoading"
                                        ELSE "selectEntry", NoMessage, FALSE)
                /\ hist' = IF reply = "rows" THEN NoHist
                           ELSE [NoHist EXCEPT !.stage = "selected", !.entry = call.entry]
                /\ UNCHANGED selectedEntry
    /\ UNCHANGED <<userId, entries, messages, isLoading, isAllEntriesMode, initializing,
                   isBookmarked, load, now, calls_made, entryChanges>>
    /\ UNCHANGED notChat

\* selectEntry: the read of `chat_messages` replies: an error, or the rows of
\* a table this hook never writes
SelectEntryMessages(call, ok) ==
    /\ call \in ChatInFlight
    /\ call.kind = "selectEntryMessages"
    /\ chatCalls' = chatCalls (-) one(call)
    /\ IF ok
       THEN /\ messages' = <<>>
            /\ UNCHANGED selectedEntry
       ELSE /\ selectedEntry' = NoEntry
            /\ UNCHANGED messages
    /\ chatLast' = ChatLast("selectEntry", NoMessage, ~ok)
    /\ hist' = IF ok THEN [NoHist EXCEPT !.stage = "selected", !.entry = call.entry]
               ELSE NoHist
    /\ UNCHANGED <<userId, entries, isLoading, isAllEntriesMode, conversationId,
                   initializing, isBookmarked, load, store, now, calls_made, entryChanges>>
    /\ UNCHANGED notChat

\* ---- refreshConversation ----
RefreshMessage(t) ==
    ChatMessage(toString(t),
        <<"I've refreshed my knowledge with your latest journal entries. How can I help you now?">>,
        "ai", toISOString(t))

\* `.update({messages: JSON.stringify(list), last_updated}).eq('id', cid)`
updatedMessages(st, cid, list, t) ==
    IF cid \notin DOMAIN st THEN st
    ELSE [st EXCEPT ![cid].messages = StoredString(JSONstringify(list)),
                    ![cid].last_updated = t]

\* the conversation's row names one entry and that entry is not in the collection
boundEntryGone(st, cid, entriesData) ==
    /\ cid \in DOMAIN st
    /\ ~st[cid].is_all_entries
    /\ Len(st[cid].entry_ids) > 0
    /\ st[cid].entry_ids[1] \notin Range(entriesData)

\* refreshConversation with nothing bound, or nobody signed in: returns at once
RefreshIgnored ==
    /\ userId = NoUser \/ conversationId = NoConversation
    /\ calls_made < MaxCalls
    /\ calls_made' = calls_made + 1
    /\ chatLast' = ChatLast("refreshIgnored", NoMessage, FALSE)
    /\ hist' = NoHist
    /\ UNCHANGED <<userId, entries, messages, isLoading, selectedEntry, isAllEntriesMode,
                   conversationId, initializing, isBookmarked, load, store, now, chatCalls,
                   entryChanges>>
    /\ UNCHANGED notChat

\* refreshConversation in single-entry mode, up to its await of the entry's row
RefreshEntryCall ==
    /\ userId # NoUser /\ conversationId # NoConversation
    /\ ~isAllEntriesMode /\ selectedEntry # NoEntry
    /\ calls_made < MaxCalls
    /\ calls_made' = calls_made + 1
    /\ isLoading' = TRUE
    /\ chatCalls' = chatCalls (+) one(chatCallOn("refreshEntry", "none", NoMessage,
                                                 conversationId, selectedEntry, messages,
                                                 boundEntryGone(store, conversationId, entries)))
    /\ chatLast' = ChatLast("refreshCalled", NoMessage, FALSE)
    /\ hist' = NoHist
    /\ UNCHANGED <<userId, entries, messages, selectedEntry, isAllEntriesMode,
                   conversationId, initializing, isBookmarked, load, store, now,
                   entryChanges>>
    /\ UNCHANGED notChat

\* refreshConversation otherwise: the notice is appended and the update awaited
RefreshCall ==
    /\ userId # NoUser /\ conversationId # NoConversation
    /\ ~(~isAllEntriesMode /\ selectedEntry # NoEntry)
    /\ calls_made < MaxCalls
    /\ calls_made' = calls_made + 1
    /\ isLoading' = TRUE
    /\ LET refreshMessage == RefreshMessage(now)
           written == updatedMessages(store, conversationId,
                                      Append(messages, refreshMessage), now)
       IN  /\ messages' = Append(messages, refreshMessage)
           /\ store' = saved(written, userId, conversationId, initializing,
                             Append(messages, refreshMessage), now)
    /\ chatCalls' = chatCalls (+) one(chatCallOn("refreshUpdate", "none", NoMessage,
                                                 conversationId, NoEntry, <<>>,
                                                 boundEntryGone(store, conversationId, entries)))
    /\ chatLast' = ChatLast("refreshCalled", NoMessage, FALSE)
    /\ hist' = NoHist
    /\ UNCHANGED <<userId, entries, selectedEntry, isAllEntriesMode, conversationId,
                   initializing, isBookmarked, load, now, entryChanges>>
    /\ UNCHANGED notChat

\* refreshConversation: the entry's row arrives, or does not; the notice is
\* appended and the update awaited, with the list the call captured
RefreshEntryFetched(call, found) ==
    /\ call \in ChatInFlight
    /\ call.kind = "refreshEntry"
    /\ LET fetched == IF found THEN call.entry ELSE selectedEntry
           refreshMessage == RefreshMessage(now)
           written == updatedMessages(store, call.cid,
                                      Append(call.list, refreshMessage), now)
       IN  /\ selectedEntry' = selectedAfterEffect(fetched, entries)
           /\ isAllEntriesMode' = allModeAfterEffect(isAllEntriesMode, fetched, entries)
           /\ messages' = Append(messages, refreshMessage)
           /\ store' = saved(written, userId, conversationId, initializing,
                             Append(messages, refreshMessage), now)
    /\ chatCalls' = (chatCalls (-) one(call))
                    (+) one(chatCallOn("refreshUpdate", "none", NoMessage,
                                       call.cid, call.entry, <<>>, call.flag))
    /\ chatLast' = ChatLast("refreshSaving", NoMessage, FALSE)
    /\ hist' = NoHist
    /\ UNCHANGED <<userId, entries, isLoading, conversationId, initializing, isBookmarked,
                   load, now, calls_made, entryChanges>>
    /\ UNCHANGED notChat

\* refreshConversation: the update replies (its error is not looked at)
RefreshSaved(call) ==
    /\ call \in ChatInFlight
    /\ call.kind = "refreshUpdate"
    /\ chatCalls' = chatCalls (-) one(call)
    /\ isLoading' = FALSE
    /\ chatLast' = ChatLast("refresh", NoMessage, FALSE)
    /\ hist' = [NoHist EXCEPT !.stage = "refreshed", !.gone = call.flag,
                              !.before = call.cid]
    /\ UNCHANGED <<userId, entries, messages, selectedEntry, isAllEntriesMode,
                   conversationId, initializing, isBookmarked, load, store, now,
                   calls_made, entryChanges>>
    /\ UNCHANGED notChat

\* An entry is deleted and the handler that deleted it calls the
\* refreshConversation it captured: the call still sees the entry selected,
\* latestEntriesRef no longer holds it, and a new conversation is created
RefreshAfterDeletion(newEntries) ==
    /\ userId # NoUser /\ conversationId # NoConversation
    /\ ~isAllEntriesMode /\ selectedEntry # NoEntry
    /\ selectedEntry \notin Range(newEntries)
    /\ entryChanges < MaxEntryChanges
    /\ calls_made < MaxCalls
    /\ entryChanges' = entryChanges + 1
    /\ calls_made' = calls_made + 1
    /\ entries' = newEntries
    /\ selectedEntry' = NoEntry
    /\ isAllEntriesMode' = TRUE
    /\ isLoading' = TRUE
    /\ chatCalls' = chatCalls (+) one(chatCallOn("refreshInsert", "none",
                                                 InitialMessage(TRUE, now), conversationId,
                                                 selectedEntry, <<>>,
                                                 boundEntryGone(store, conversationId, newEntries)))
    /\ chatLast' = ChatLast("refreshCalled", NoMessage, FALSE)
    /\ hist' = NoHist
    /\ UNCHANGED <<userId, messages, conversationId, initializing, isBookmarked, load,
                   store, now>>
    /\ UNCHANGED notChat

\* refreshConversation: createNewConversation's insert replies
RefreshCreated(call, ok) ==
    /\ call \in ChatInFlight
    /\ call.kind = "refreshInsert"
    /\ LET inserted == Append(store, Row(userId, <<>>, TRUE,
                                         StoredString(JSONstringify(<<call.msg>>)), now))
           newConversationId == Len(inserted)
       IN  IF ok
           THEN /\ messages' = <<call.msg>>
                /\ conversationId' = newConversationId
                /\ store' = saved(inserted, userId, newConversationId, initializing,
                                  <<call.msg>>, now)
                /\ chatCalls' = withStatusFetch(chatCalls (-) one(call), inserted, userId,
                                                conversationId, newConversationId)
           ELSE /\ chatCalls' = chatCalls (-) one(call)
                /\ UNCHANGED <<messages, conversationId, store>>
    /\ isLoading' = FALSE
    /\ chatLast' = ChatLast("refresh", NoMessage, ~ok)
    /\ hist' = [NoHist EXCEPT !.stage = "refreshed", !.gone = call.flag,
                              !.before = call.cid]
    /\ UNCHANGED <<userId, entries, selectedEntry, isAllEntriesMode, initializing,
                   isBookmarked, load, now, calls_made, entryChanges>>
    /\ UNCHANGED notChat

\* ---- bookmarkConversation and the fetchBookmarkStatus effect ----
\* `new Date().toLocaleDateString()`: the day the clock reading falls on
toLocaleDateString(t) == <<"day">> \o toString(t \div 2)
titleOf(t) == <<"Chat from ">> \o toLocaleDateString(t)

\* an update that flips the stored flag instead of setting it
bookmarked_Toggles(st, uid, id, flag, t) ==
    IF id \notin DOMAIN st \/ st[id].user_id # uid THEN st
    ELSE [st EXCEPT ![id].is_bookmarked = ~st[id].is_bookmarked]

\* `.update({is_bookmarked, title}).eq('id', id).eq('user_id', uid)`; an
\* undefined title is left out of the request
bookmarked(st, uid, id, flag, t) ==
    IF id \notin DOMAIN st \/ st[id].user_id # uid THEN st
    ELSE IF flag THEN [st EXCEPT ![id].is_bookmarked = TRUE, ![id].title = titleOf(t)]
    ELSE [st EXCEPT ![id].is_bookmarked = FALSE]

\* bookmarkConversation up to its await of the update
BookmarkCall(id, flag) ==
    /\ userId # NoUser
    /\ id \in DOMAIN store
    /\ calls_made < MaxCalls
    /\ calls_made' = calls_made + 1
    /\ isLoading' = TRUE
    /\ chatCalls' = chatCalls (+) one(chatCallOn("bookmark", "none", NoMessage, id,
                                                 NoEntry, <<>>, flag))
    /\ chatLast' = ChatLast("bookmarkCalled", NoMessage, FALSE)
    /\ hist' = IF flag /\ hist.bmId = id THEN hist
               ELSE [NoHist EXCEPT !.bmId = IF flag THEN id ELSE NoConversation]
    /\ UNCHANGED <<userId, entries, messages, selectedEntry, isAllEntriesMode,
                   conversationId, initializing, isBookmarked, load, store, now,
                   entryChanges>>
    /\ UNCHANGED notChat

\* bookmarkConversation: the update replies
BookmarkResolve(call, ok) ==
    /\ call \in ChatInFlight
    /\ call.kind = "bookmark"
    /\ chatCalls' = chatCalls (-) one(call)
    /\ IF ok
       THEN /\ store' = bookmarked(store, userId, call.cid, call.flag, now)
            /\ isBookmarked' = call.flag
       ELSE UNCHANGED <<store, isBookmarked>>
    /\ isLoading' = FALSE
    /\ chatLast' = ChatLast("bookmark", NoMessage, ~ok)
    /\ hist' = IF ok /\ call.flag /\ hist.bmId = call.cid
               THEN [hist EXCEPT !.bmCount = @ + 1]
               ELSE NoHist
    /\ UNCHANGED <<userId, entries, messages, selectedEntry, isAllEntriesMode,
                   conversationId, initializing, load, now, calls_made, entryChanges>>
    /\ UNCHANGED notChat

\* fetchBookmarkStatus: the read replies with the row as it stood when the
\* read was issued, or as it stands now; an error is only logged
BookmarkStatus(call, fresh) ==
    /\ call \in ChatInFlight
    /\ call.kind = "bookmarkStatus"
    /\ chatCalls' = chatCalls (-) one(call)
    /\ isBookmarked' = IF fresh
                       THEN IF call.cid \in DOMAIN store
                            THEN store[call.cid].is_bookmarked ELSE isBookmarked
                       ELSE IF call.op = "row" THEN call.flag ELSE isBookmarked
    /\ hist' = [hist EXCEPT !.bmId = NoConversation, !.bmCount = 0]
    /\ UNCHANGED <<userId, entries, messages, isLoading, selectedEntry, isAllEntriesMode,
                   conversationId, initializing, load, store, now, calls_made,
                   entryChanges, chatLast>>
    /\ UNCHANGED notChat

(***************************************************************************)
(* InsightStore: hooks/useSavedInsights (src/unnamed/part_006)             *)
(*                                                                         *)
(* AsyncStorage serves its requests in the order they were issued, so a    *)
(* request takes effect on the storage when it is issued and its promise   *)
(* settles later, in issue order (insQueue).  A handler called twice       *)
(* before React has rendered again runs twice with the savedInsights of    *)
(* the same render (rendered).                                             *)
(***************************************************************************)
MaxInsightCalls == 2
MaxUserChanges == 1

STORAGE_KEY == "saved_insights"
InsightUsers == {"u1", "u2"}

getUserKey(user) == <<STORAGE_KEY, "_", IF user = NoUser THEN "anonymous" ELSE user>>

StorageKeys == { getUserKey(user) : user \in InsightUsers \cup {NoUser} }

\* A SavedInsight; origin is the storage key it was first kept under
SavedInsight(id, message, timestamp, origin) ==
    [id |-> id, message |-> message, timestamp |-> timestamp, origin |-> origin]

\* AsyncStorage.getItem of a key that was never set
NoItem == [missing |-> TRUE]
\* An item that is not JSON
CorruptItem == [text |-> <<"{">>]

\* JSON.stringify of an insight list, and JSON.parse of a stored item
stringify(insights) == [array |-> insights]
CanParse(item) == "array" \in DOMAIN item
parse(item) == item.array

\* What loadSavedInsights hands to setSavedInsights for a stored item
loaded(item) ==
    IF item = NoItem THEN <<>>
    ELSE IF CanParse(item) THEN parse(item)
    ELSE <<>>

StoredInsight(user) ==
    SavedInsight(toString(0), "kept", toISOString(0), getUserKey(user))

InitialStorages ==
    { [key \in StorageKeys |->
          IF key = getUserKey("u1") THEN stringify(<<StoredInsight("u1")>>)
          ELSE IF key = getUserKey("u2") THEN other
          ELSE NoItem] :
      other \in {NoItem, CorruptItem, stringify(<<StoredInsight("u2")>>)} }

InsightMessages == {"m1", "m2"}
InsightUpdates == {[message |-> "edited"]}

\* { ...insight, ...updates }
spread(insight, updates) ==
    [field \in DOMAIN insight \cup DOMAIN updates |->
        IF field \in DOMAIN updates THEN updates[field] ELSE insight[field]]

\* insights.filter(i => i.id !== id)
RECURSIVE withoutId(_, _)
withoutId(insights, id) ==
    IF insights = <<>> THEN <<>>
    ELSE IF Head(insights).id # id
         THEN <<Head(insights)>> \o withoutId(Tail(insights), id)
         ELSE withoutId(Tail(insights), id)

\* insights.map(i => i.id === id ? { ...i, ...updates } : i)
withUpdates(insights, id, updates) ==
    [n \in DOMAIN insights |->
        IF insights[n].id = id THEN spread(insights[n], updates) ELSE insights[n]]

\* The lists a handler may hold: the current state, or the state of the
\* render the previous handler call was made from
Snapshots == {savedInsights, rendered}

InsightIds(insights) == { insights[n].id : n \in DOMAIN insights } \cup {toString(0)}

NoInsightHist == [sinceLoad |-> 0, raced |-> FALSE, failed |-> FALSE, changed |-> FALSE]

loadRequest(user, storage) == [kind |-> "load", item |-> storage[getUserKey(user)], ok |-> TRUE]
writeRequest(ok) == [kind |-> "write", item |-> NoItem, ok |-> ok]

LoadPending == \E n \in DOMAIN insQueue : insQueue[n].kind = "load"

InsIdle ==
    /\ sessionUser = NoUser
    /\ savedInsights = <<>>
    /\ loading = TRUE
    /\ asyncStorage = [key \in StorageKeys |-> NoItem]
    /\ insQueue = <<>>
    /\ rendered = <<>>
    /\ insClock = 1
    /\ insMade = 0
    /\ userChanges = 0
    /\ insIdeal = <<>>
    /\ insHist = NoInsightHist

\* The hook mounted for a signed-in user: the effect has called
\* loadSavedInsights
InsInit ==
    /\ sessionUser = "u1"
    /\ savedInsights = <<>>
    /\ loading = TRUE
    /\ asyncStorage \in InitialStorages
    /\ insQueue = <<loadRequest("u1", asyncStorage)>>
    /\ rendered = <<>>
    /\ insClock = 1
    /\ insMade = 0
    /\ userChanges = 0
    /\ insIdeal = <<>>
    /\ insHist = NoInsightHist

InsTick ==
    /\ insClock < MaxClock
    /\ insClock' = insClock + 1
    /\ UNCHANGED <<sessionUser, savedInsights, loading, asyncStorage, insQueue, rendered,
                   insMade, userChanges, insIdeal, insHist>>
    /\ UNCHANGED notIns

\* The session changes; the effect calls loadSavedInsights when it has a user
SessionChange(user) ==
    /\ user # sessionUser
    /\ userChanges < MaxUserChanges
    /\ userChanges' = userChanges + 1
    /\ sessionUser' = user
    /\ rendered' = savedInsights
    /\ IF user # NoUser
       THEN /\ loading' = TRUE
            /\ insQueue' = Append(insQueue, loadRequest(user, asyncStorage))
       ELSE UNCHANGED <<loading, insQueue>>
    /\ insHist' = [insHist EXCEPT !.changed = TRUE]
    /\ UNCHANGED <<savedInsights, asyncStorage, insClock, insMade, insIdeal>>
    /\ UNCHANGED notIns

\* loadSavedInsights after its await
LoadResolve ==
    /\ insQueue # <<>>
    /\ Head(insQueue).kind = "load"
    /\ insQueue' = Tail(insQueue)
    /\ savedInsights' = loaded(Head(insQueue).item)
    /\ rendered' = savedInsights'
    /\ loading' = FALSE
    /\ insIdeal' = savedInsights'
    /\ insHist' = [insHist EXCEPT !.sinceLoad = 0]
    /\ UNCHANGED <<sessionUser, asyncStorage, insClock, insMade, userChanges>>
    /\ UNCHANGED notIns

\* saveSavedInsights up to its await, called with the list a mutation built
mutated(updatedInsights, ideal, ok) ==
    /\ insMade < MaxInsightCalls
    /\ insMade' = insMade + 1
    /\ savedInsights' = updatedInsights
    /\ asyncStorage' = IF ok
                       THEN [asyncStorage EXCEPT ![getUserKey(sessionUser)] = stringify(updatedInsights)]
                       ELSE asyncStorage
    /\ insQueue' = Append(insQueue, writeRequest(ok))
    /\ insIdeal' = ideal
    /\ insHist' = [insHist EXCEPT !.sinceLoad = @ + 1,
                                  !.raced = @ \/ LoadPending,
                                  !.failed = @ \/ ~ok]
    /\ UNCHANGED <<sessionUser, loading, insClock, userChanges>>
    /\ UNCHANGED notIns

newInsight(message) ==
    SavedInsight(toString(insClock), message, toISOString(insClock), getUserKey(sessionUser))

saveInsight(snapshot, message, ok) ==
    /\ snapshot \in Snapshots
    /\ rendered' = snapshot
    /\ mutated(Append(snapshot, newInsight(message)),
               Append(insIdeal, newInsight(message)), ok)

deleteInsight(snapshot, id, ok) ==
    /\ snapshot \in Snapshots
    /\ rendered' = snapshot
    /\ mutated(withoutId(snapshot, id), withoutId(insIdeal, id), ok)

updateInsight(snapshot, id, updates, ok) ==
    /\ snapshot \in Snapshots
    /\ rendered' = snapshot
    /\ mutated(withUpdates(snapshot, id, updates), withUpdates(insIdeal, id, updates), ok)

\* saveSavedInsights after its await: a rejection is logged and rethrown
WriteResolve ==
    /\ insQueue # <<>>
    /\ Head(insQueue).kind = "write"
    /\ insQueue' = Tail(insQueue)
    /\ rendered' = savedInsights
    /\ UNCHANGED <<sessionUser, savedInsights, loading, asyncStorage, insClock, insMade,
                   userChanges, insIdeal, insHist>>
    /\ UNCHANGED notIns

ParserIdle == pText = <<>> /\ pResult = NoAnalysis

\* The reflection hook, from its construction on
Init == ReflInit /\ ParserIdle /\ SvcInit /\ ChatIdle /\ InsIdle

Next ==
    \/ \E theme \in Themes : StartCall(theme)
    \/ \E call \in InFlight : \E outcome \in StartOutcomes : StartResolve(call, outcome)
    \/ \E answer \in AnswerChoices : AnswerGuard(answer)
    \/ \E answer \in AnswerChoices : AnswerCall(answer)
    \/ \E call \in InFlight :
          /\ call.kind = "answer"
          /\ \E outcome \in AnswerOutcomes(call.session) : AnswerResolve(call, outcome)

Spec == Init /\ [][Next]_vars

\* The parser, applied to every input text
InitParser == ParserInit /\ ReflInit /\ SvcInit /\ ChatIdle /\ InsIdle
NextParser == Parse
SpecParser == InitParser /\ [][NextParser]_vars

\* The gateway: each operation against each fetch outcome
InitService == SvcInit /\ ReflInit /\ ParserIdle /\ ChatIdle /\ InsIdle
NextService ==
    \/ \E op \in Operations : ServiceCall(op)
    \/ \E outcome \in FetchOutcomes : ServiceSettle(outcome)
SpecService == InitService /\ [][NextService]_vars

\* The chat hook, from its first render on
InitChat == ChatInit /\ ReflInit /\ ParserIdle /\ SvcInit /\ InsIdle
NextChat ==
    \/ Tick
    \/ \E newEntries \in EntryLists : EntriesChange(newEntries)
    \/ \E queryError \in BOOLEAN : LoadNothing(queryError)
    \/ \E row \in DOMAIN store : LoadConversation(row)
    \/ \E found \in BOOLEAN : LoadEntry(found)
    \/ \E text \in SendTexts : SendIgnored(text)
    \/ \E text \in SendTexts : \E elapsed \in {0, 1} : SendLocal(text, elapsed)
    \/ \E text \in SendTexts : SendCall(text)
    \/ \E call \in ChatInFlight : \E outcome \in ChatOutcomes : SendResolve(call, outcome)
    \/ ClearChat
    \/ SelectAllCall
    \/ \E call \in ChatInFlight : SelectAllFailed(call)
    \/ \E call \in ChatInFlight : \E row \in DOMAIN store : SelectAllExisting(call, row)
    \/ \E call \in ChatInFlight : SelectAllCreate(call)
    \/ \E call \in ChatInFlight : SelectAllCreated(call)
    \/ \E entry \in SelectableEntries : SelectEntryRejected(entry)
    \/ \E entry \in SelectableEntries : SelectEntryCall(entry)
    \/ \E call \in ChatInFlight : \E reply \in UpsertReplies : SelectEntryUpserted(call, reply)
    \/ \E call \in ChatInFlight : \E ok \in BOOLEAN : SelectEntryMessages(call, ok)
    \/ RefreshIgnored
    \/ RefreshEntryCall
    \/ RefreshCall
    \/ \E call \in ChatInFlight : \E found \in BOOLEAN : RefreshEntryFetched(call, found)
    \/ \E call \in ChatInFlight : RefreshSaved(call)
    \/ \E newEntries \in EntryLists : RefreshAfterDeletion(newEntries)
    \/ \E call \in ChatInFlight : \E ok \in BOOLEAN : RefreshCreated(call, ok)
    \/ \E id \in DOMAIN store : \E flag \in BOOLEAN : BookmarkCall(id, flag)
    \/ \E call \in ChatInFlight : \E ok \in BOOLEAN : BookmarkResolve(call, ok)
    \/ \E call \in ChatInFlight : \E fresh \in BOOLEAN : BookmarkStatus(call, fresh)
SpecChat == InitChat /\ [][NextChat]_vars

\* The app: the reflection screen and the chat screen, of which one is open
\* at a time; each hook runs from its first render on while the other has
\* not been mounted
InitApp == ChatInit /\ ReflInit /\ ParserIdle /\ SvcInit /\ InsIdle
NextApp ==
    \/ ChatIdle /\ \E theme \in Themes : StartCall(theme)
    \/ ChatIdle /\ \E call \in InFlight : \E outcome \in StartOutcomes :
                       StartResolve(call, outcome)
    \/ ChatIdle /\ \E answer \in AnswerChoices : AnswerGuard(answer)
    \/ ChatIdle /\ \E answer \in AnswerChoices : AnswerCall(answer)
    \/ ChatIdle /\ \E call \in InFlight :
                       /\ call.kind = "answer"
                       /\ \E outcome \in AnswerOutcomes(call.session) : AnswerResolve(call, outcome)
    \/ ReflInit /\ NextChat
SpecApp == InitApp /\ [][NextApp]_vars

\* The insight store, from its mount for a signed-in user on
InitInsights == InsInit /\ ReflInit /\ ParserIdle /\ SvcInit /\ ChatIdle
NextInsights ==
    \/ InsTick
    \/ \E user \in InsightUsers \cup {NoUser} : SessionChange(user)
    \/ LoadResolve
    \/ WriteResolve
    \/ \E snapshot \in Snapshots : \E message \in InsightMessages : \E ok \in BOOLEAN :
          saveInsight(snapshot, message, ok)
    \/ \E snapshot \in Snapshots : \E id \in InsightIds(snapshot) : \E ok \in BOOLEAN :
          deleteInsight(snapshot, id, ok)
    \/ \E snapshot \in Snapshots : \E id \in InsightIds(snapshot) :
          \E updates \in InsightUpdates : \E ok \in BOOLEAN :
              updateInsight(snapshot, id, updates, ok)
SpecInsights == InitInsights /\ [][NextInsights]_vars

(***************************************************************************)
(* Claims about the reflection hook (checked under Spec)                   *)
(***************************************************************************)
\* All five fields of an analysis are present and non-empty
WellFormedAnalysis(a) ==
    /\ a # NoAnalysis
    /\ Len(a.negative_patterns) > 0
    /\ Len(a.positive_patterns) > 0
    /\ Len(a.affirmations) > 0
    /\ Len(a.actionable_steps) > 0
    /\ a.encouragement # <<>>

\* Every one of ten questions has an answer
AllTenAnswered(session) ==
    /\ Len(session.questions) = 10
    /\ \A i \in 1..Len(session.questions) : session.questions[i].answer # UNDEFINED

\* A step in which a call awaiting the gateway resolves
ResolveStep == BagCardinality(calls') < BagCardinality(calls)

\* C1: when the calls are issued one after the other (none while another is
\* awaiting the gateway), the session is completed exactly when ten
\* answerCurrentQuestion calls have resolved since startNewSession: the tenth
\* completes it, none of the first nine does; and a completed session carries
\* an analysis whose four lists and whose encouragement are non-empty.
C1_TenthAnswerCompletes ==
    (overlaps = 0 /\ currentSession # NoSession) =>
        /\ (currentSession.status = "completed") <=> (answered = 10)
        /\ currentSession.status = "completed" =>
              WellFormedAnalysis(currentSession.analysis)

C1_Witness ==
    /\ overlaps = 0
    /\ answered = 10
    /\ currentSession # NoSession
    /\ currentSession.status = "completed"
    /\ last.op = "answer"

\* C2: right after startNewSession(theme) has resolved, the session has
\* exactly one question (order 1, no answer), index 0, status in_progress and
\* the theme's id, and currentQuestion is that question.
C2_StartYieldsFreshSession ==
    last.op = "start" =>
        /\ currentSession # NoSession
        /\ Len(currentSession.questions) = 1
        /\ currentSession.questions[1].order = 1
        /\ currentSession.questions[1].answer = UNDEFINED
        /\ currentSession.current_question_index = 0
        /\ currentSession.status = "in_progress"
        /\ currentSession.theme_id = last.theme
        /\ currentQuestion = currentSession.questions[1]

C2_Witness ==
    /\ last.op = "start"
    /\ last.theme = "life-purpose"
    /\ currentSession.id = 2
    /\ error = NoError

\* C3: in every reachable state the session has at most 10 questions and
\* 0 <= current_question_index <= questions.length.
C3_QuestionBounds ==
    currentSession # NoSession =>
        /\ Len(currentSession.questions) <= 10
        /\ 0 <= currentSession.current_question_index
        /\ currentSession.current_question_index <= Len(currentSession.questions)

\* ... reached with a call made after completion in a run with overlapping calls
C3_Witness ==
    /\ currentSession # NoSession
    /\ Len(currentSession.questions) = 10
    /\ currentSession.current_question_index = 10
    /\ overlaps = 1
    /\ last.op = "answerGuard"

\* C4 (as claimed): when a call resolves whose gateway request failed, the
\* error string is set and currentSession is what it was before.
C4_FailureLeavesSessionUnchanged ==
    [][(ResolveStep /\ last'.failed) =>
          (error' # NoError /\ currentSession' = currentSession)]_vars

\* C5: status is completed exactly when all ten questions have an answer, and
\* the analysis is present exactly when status is completed.
C5_CompletedIffAllAnswered ==
    currentSession # NoSession =>
        /\ (currentSession.status = "completed") <=> AllTenAnswered(currentSession)
        /\ (currentSession.analysis # NoAnalysis) <=> (currentSession.status = "completed")

\* ... reached by completing a session in a run with overlapping calls
C5_Witness ==
    /\ currentSession # NoSession
    /\ currentSession.status = "completed"
    /\ AllTenAnswered(currentSession)
    /\ overlaps = 1

\* C6 (as claimed): once a session is completed, no step changes the
\* analysis, the questions or the status of that session.
C6_CompletedIsFinal ==
    [][(currentSession.id # 0 /\ currentSession.status = "completed"
        /\ currentSession'.id = currentSession.id) =>
          /\ currentSession'.analysis = currentSession.analysis
          /\ currentSession'.questions = currentSession.questions
          /\ currentSession'.status = currentSession.status]_vars

\* C7 (as claimed): an answer, once set, is never changed in that session.
C7_AnswerSetOnce ==
    [][(currentSession.id # 0 /\ currentSession'.id = currentSession.id) =>
          \A i \in 1..Len(currentSession.questions) :
              currentSession.questions[i].answer # UNDEFINED =>
                  /\ i <= Len(currentSession'.questions)
                  /\ currentSession'.questions[i].answer =
                        currentSession.questions[i].answer]_vars

(***************************************************************************)
(* Claims about the gateway (checked under SpecService)                    *)
(***************************************************************************)
\* A success response: 2xx, a JSON body, a first choice
SuccessResponse(outcome) ==
    /\ outcome.network
    /\ outcome.status \in 200..299
    /\ outcome.parses
    /\ outcome.hasChoices
    /\ Len(outcome.choices) >= 1

\* C9: every operation settles by resolving, never by rejecting: to the
\* content of the first choice for a success response, and to the operation's
\* apology string for a network error, for a non-2xx status whatever the body,
\* and for a body without choices.
C9_ServiceNeverRejects ==
    svcPhase = "done" =>
        /\ ~svcResult.rejected
        /\ SuccessResponse(svcOutcome) => svcResult.value = svcOutcome.choices[1]
        /\ ~svcOutcome.network => svcResult.value = Apology(svcOp)
        /\ (svcOutcome.network /\ svcOutcome.status \notin 200..299) =>
              svcResult.value = Apology(svcOp)
        /\ (svcOutcome.network /\ (~svcOutcome.hasChoices \/ svcOutcome.choices = <<>>)) =>
              svcResult.value = Apology(svcOp)

\* ... a non-2xx response whose body does carry a first choice
C9_Witness ==
    /\ svcPhase = "done"
    /\ svcOp = "generateInsight"
    /\ svcOutcome.status = 500
    /\ svcOutcome.hasChoices
    /\ svcOutcome.choices = << <<"reply">> >>
    /\ svcResult.value = Apology("generateInsight")

(***************************************************************************)
(* Claims about the parser (checked under SpecParser)                      *)
(***************************************************************************)
\* C10: for every input text parseAnalysisResponse returns an analysis whose
\* four lists are non-empty, the fixed fallback list standing in for every
\* section that collected no item, and whose encouragement is non-empty.
C10_ParserTotal ==
    pResult # NoAnalysis =>
        /\ WellFormedAnalysis(pResult)
        /\ extractBulletPoints(pText, NegativeHeaders) = <<>> =>
              pResult.negative_patterns = defaultAnalysis.negative_patterns
        /\ extractBulletPoints(pText, PositiveHeaders) = <<>> =>
              pResult.positive_patterns = defaultAnalysis.positive_patterns
        /\ extractBulletPoints(pText, AffirmationHeaders) = <<>> =>
              pResult.affirmations = defaultAnalysis.affirmations
        /\ extractBulletPoints(pText, StepHeaders) = <<>> =>
              pResult.actionable_steps = defaultAnalysis.actionable_steps

\* ... the empty string: every list is the fallback
C10_Witness ==
    /\ pText = <<>>
    /\ pResult # NoAnalysis
    /\ pResult.negative_patterns = defaultAnalysis.negative_patterns
    /\ pResult.actionable_steps = defaultAnalysis.actionable_steps
    /\ pResult.encouragement = <<"Continue your journey with courage and compassion.">>

(***************************************************************************)
(* Claims about the chat hook (checked under SpecChat)                     *)
(***************************************************************************)
\* a sendMessage call reaches its await of the gateway in this step
SendIssued == chatLast'.op = "sendCalled" /\ calls_made' # calls_made

\* a sendMessage call runs to its end in this step
SendSettled ==
    /\ chatLast'.op = "sendResolved"
    /\ \/ calls_made' # calls_made
       \/ \E call \in ChatInFlight :
             call.kind = "send" /\ chatCalls' = chatCalls (-) SetToBag({call})

\* the list grows at its end by one message of the AI
AppendsOneAiMessage(before, after) ==
    /\ Len(after) = Len(before) + 1
    /\ SubSeq(after, 1, Len(before)) = before
    /\ after[Len(after)].sender = "ai"

\* The order of a call's two appends: the user message goes on the list in
\* the step that issues the gateway call, one AI message in the step that
\* settles it.
SendAppendsInOrder ==
    [][ /\ SendIssued => messages' = Append(messages, chatLast'.user)
        /\ (SendSettled /\ chatCalls' # chatCalls) => AppendsOneAiMessage(messages, messages')
        /\ (SendSettled /\ chatCalls' = chatCalls) =>
              AppendsOneAiMessage(Append(messages, chatLast'.user), messages')
      ]_vars

\* C8: every sendMessage call with non-blank text and a signed-in user
\* appends the user message before the gateway is called, appends exactly one
\* AI message after the gateway call resolves, and the user message is still
\* in the list at that point, whether the gateway succeeded or failed.
C8_SendKeepsUserMessage ==
    [][ /\ SendIssued => messages' = Append(messages, chatLast'.user)
        /\ SendSettled =>
              /\ messages' # <<>>
              /\ messages'[Len(messages')].sender = "ai"
              /\ chatLast'.user \in Range(messages')
      ]_vars

\* C11: parsing the fixture text "Negative patterns:\n- overthinking\n-
\* avoidance\n\nPositive patterns:\n- resilience\n\nFinal thoughts." yields
\* negative_patterns exactly [overthinking, avoidance], positive_patterns
\* exactly [resilience] and the encouragement "Final thoughts.".
C11_FixtureParse ==
    (pText = FixtureText /\ pResult # NoAnalysis) =>
        /\ pResult.negative_patterns = << <<"overthinking">>, <<"avoidance">> >>
        /\ pResult.positive_patterns = << <<"resilience">> >>
        /\ pResult.encouragement = <<"Final thoughts", ".">>

\* C12: when selectAllEntries is called twice in succession (the second call
\* made after the first has resolved, no other operation in between, every
\* store call succeeding), the second call binds the conversation id the
\* first one bound and inserts no second all-entries row.
C12_SecondSelectAllRebinds ==
    hist.stage = "second" =>
        /\ conversationId = hist.cid
        /\ Len(store) = hist.rows

\* the user's rows that are all-entries conversations
AllEntriesRows(st, uid) ==
    { i \in DOMAIN st : st[i].user_id = uid /\ st[i].is_all_entries }

\* C13: after any sequence of selectEntry, selectAllEntries,
\* refreshConversation, clearChat and sendMessage calls for one user, the
\* store holds at most one row with is_all_entries = true for that user: no
\* step of the hook adds an all-entries row to a store that holds one.
C13_OneAllEntriesRow ==
    [][ Cardinality(AllEntriesRows(store', userId)) > Cardinality(AllEntriesRows(store, userId))
            => Cardinality(AllEntriesRows(store', userId)) <= 1 ]_vars

\* C14: when refreshConversation is called while the active conversation is
\* a single-entry conversation whose bound entry id is no longer in the entry
\* collection, then after the call resolves isAllEntriesMode = true,
\* selectedEntry is null and conversationId is the id of a newly created
\* conversation row, different from the id before the call.
C14_RefreshAfterDeletionRebinds ==
    (hist.stage = "refreshed" /\ hist.gone) =>
        /\ isAllEntriesMode
        /\ selectedEntry = NoEntry
        /\ conversationId # NoConversation
        /\ conversationId # hist.before

\* a payload the load path cannot read as an array
Unreadable(stored) ==
    \/ stored.kind = "other"
    \/ /\ stored.kind = "string"
       /\ JSONparse(stored.text).threw \/ JSONparse(stored.text).kind # "array"

\* this step binds a stored conversation and takes over its messages: the
\* initial load, or selectAllEntries finding its row
LoadsStoredRow ==
    /\ conversationId' \in DOMAIN store
    /\ ~chatLast'.failed
    /\ \/ chatLast'.op = "load" /\ load.phase = "query"
       \/ chatLast'.op = "selectAll" /\ Len(store') = Len(store)

\* C15: a message list written by the save path and read back by the load
\* path, from a native array or from its serialized string, equals the list
\* element by element; a payload that is neither, or a string that does not
\* parse to an array, reads as the empty list.
C15_MessagesRoundTrip ==
    [][ /\ decodeMessages(StoredString(JSONstringify(messages'))) = messages'
        /\ decodeMessages(StoredArray(messages')) = messages'
        /\ \A i \in DOMAIN store' :
              Unreadable(store'[i].messages) => decodeMessages(store'[i].messages) = <<>>
        /\ LoadsStoredRow =>
              LET stored == store[conversationId'].messages
              IN  /\ Unreadable(stored) => messages' = <<>>
                  /\ stored.kind = "array" => messages' = stored.list
                  /\ (stored.kind = "string" /\ ~Unreadable(stored))
                        => JSONstringify(messages') = stored.text
      ]_vars

\* a list of two messages has been saved as a string and is the one in memory
C15_Witness ==
    /\ conversationId \in DOMAIN store
    /\ Len(messages) >= 2
    /\ store[conversationId].messages = StoredString(JSONstringify(messages))
    /\ \E i \in DOMAIN store : Unreadable(store[i].messages)

\* C16: for every conversation id, two consecutive bookmarkConversation(id,
\* true) calls whose store calls succeed leave the row's is_bookmarked and
\* the hook's isBookmarked both true, and neither call raises.
C16_BookmarkTwice ==
    hist.bmCount >= 2 =>
        /\ isBookmarked
        /\ store[hist.bmId].is_bookmarked
        /\ chatLast.op = "bookmark" => ~chatLast.failed

\* the second of two bookmarkConversation(id, true) calls has resolved
C16_Witness ==
    /\ hist.bmCount = 2
    /\ hist.bmId \in DOMAIN store
    /\ store[hist.bmId].is_bookmarked
    /\ calls_made = 2

\* an entry is selected while the hook is in all-entries mode
SelectedInAllMode == selectedEntry # NoEntry /\ isAllEntriesMode

\* C17: in every reachable state with a bound conversation exactly one of
\* "an entry is selected" and "isAllEntriesMode = true" holds, and an entry
\* selected together with isAllEntriesMode = true is never reached under any
\* interleaving of selectEntry, selectAllEntries, refreshConversation and the
\* initial load.
C17_ModeExclusive ==
    /\ ~SelectedInAllMode
    /\ conversationId # NoConversation => (selectedEntry # NoEntry) # isAllEntriesMode

\* list a is an initial part of list b
IsPrefix(a, b) == Len(a) <= Len(b) /\ SubSeq(b, 1, Len(a)) = a

\* C18: while conversationId stays the same, the message list only grows,
\* in memory and as persisted: every step that keeps the bound id leaves the
\* old list as a prefix of the new one; no operation shortens, clears or
\* rewrites it.
C18_MessagesOnlyGrow ==
    [][ (conversationId # NoConversation /\ conversationId' = conversationId) =>
            /\ IsPrefix(messages, messages')
            /\ conversationId \in DOMAIN store =>
                  IsPrefix(decodeMessages(store[conversationId].messages),
                           decodeMessages(store'[conversationId].messages))
      ]_vars

\* no call of the hook is awaiting a reply and the initial load is over
Quiescent == ChatInFlight = {} /\ load.phase \in {"done", "off"}

\* C19: whenever the in-memory list changes while a conversation id is
\* bound, the whole list is written to that row as a replacement, so that
\* once every pending write has resolved the persisted messages equal the
\* in-memory list.
C19_PersistedEqualsMemory ==
    (Quiescent /\ conversationId \in DOMAIN store) =>
        decodeMessages(store[conversationId].messages) = messages

\* C20: after selectEntry(entry) resolves successfully, selectedEntry =
\* entry, isAllEntriesMode = false, conversationId is the id of a persisted
\* row whose entry_ids = [entry.id], and the in-memory messages equal the
\* messages persisted for that conversation.
C20_SelectEntryBinds ==
    hist.stage = "selected" =>
        /\ selectedEntry = hist.entry
        /\ ~isAllEntriesMode
        /\ conversationId \in DOMAIN store
        /\ store[conversationId].entry_ids = <<hist.entry>>
        /\ messages = decodeMessages(store[conversationId].messages)

(***************************************************************************)
(* Claims about the guards of both hooks (checked under SpecApp)           *)
(***************************************************************************)
\* answerCurrentQuestion's guard holds: no session, or no question
NoActiveQuestion == currentSession = NoSession \/ currentQuestion = NoQuestion

\* a step of the reflection hook that neither issues nor settles a call
ReflGuardStep == NoActiveQuestion /\ calls' = calls /\ reflVars' # reflVars

\* a sendMessage call returns at its guard in this step
SendGuardStep == chatLast'.op = "sendIgnored" /\ calls_made' # calls_made

\* C21: answerCurrentQuestion with no current session or no current question,
\* and sendMessage with blank text or no signed-in user, throw nothing, make
\* no gateway call and leave the session, the message list and the persisted
\* store unchanged; answerCurrentQuestion only sets the error string.
C21_GuardsAreNoOps ==
    [][ /\ NoActiveQuestion =>
              \A call \in BagToSet(calls') :
                  call.kind = "answer" => CopiesIn(call, calls') <= CopiesIn(call, calls)
        /\ ReflGuardStep =>
              /\ error' = "No active question to answer"
              /\ ~last'.failed
              /\ UNCHANGED <<currentSession, currentQuestion, hasCompletedAllQuestions>>
        /\ userId = NoUser =>
              /\ messages' = messages /\ store' = store
              /\ \A call \in BagToSet(chatCalls') : call.kind # "send"
        /\ (chatLast'.op \in {"sendCalled", "sendResolved"} /\ calls_made' # calls_made) =>
              trim(chatLast'.user.text) # <<>>
        /\ SendGuardStep =>
              /\ ~chatLast'.failed
              /\ UNCHANGED <<messages, store, chatCalls, conversationId, selectedEntry,
                             isAllEntriesMode, isLoading>>
      ]_vars

\* sendMessage has returned at its guard in a bound conversation holding
\* messages
C21_Witness ==
    /\ chatLast.op = "sendIgnored"
    /\ userId # NoUser
    /\ conversationId \in DOMAIN store
    /\ messages # <<>>

(***************************************************************************)
(* Further claims about the chat hook (checked under SpecChat)             *)
(***************************************************************************)
\* the step takes `call` out of the calls in flight / puts it there
Settles(call) == CopiesIn(call, chatCalls') < CopiesIn(call, chatCalls)
Issues(call) == CopiesIn(call, chatCalls') > CopiesIn(call, chatCalls)

\* C22: every refreshConversation call made with a bound conversation
\* appends the refresh notice to the active conversation's message list,
\* both when the bound entry still exists and when the conversation was
\* migrated to all-entries mode because the entry is gone: the notice goes
\* on the list in the step that sends the update, and a call that resolves
\* without having sent the update leaves the notice at the end of the list.
C22_RefreshAppendsNotice ==
    [][ /\ \A call \in BagToSet(chatCalls') :
              (call.kind = "refreshUpdate" /\ Issues(call)) =>
                  messages' = Append(messages, RefreshMessage(now))
        /\ \A call \in ChatInFlight :
              (chatLast'.op = "refresh" /\ ~chatLast'.failed /\ Settles(call)
                  /\ call.kind # "refreshUpdate") =>
                  /\ messages' # <<>>
                  /\ messages'[Len(messages')].text = RefreshMessage(now).text
      ]_vars

\* C23: bookmarkConversation sets the default date title only the first time
\* a conversation is bookmarked: a bookmarkConversation(id, true) call on a
\* conversation that already has a title leaves the title unchanged, and
\* bookmarkConversation(id, false) never changes the title.
C23_TitleSetOnce ==
    [][ \A id \in DOMAIN store :
            /\ store[id].title # NoTitle => store'[id].title = store[id].title
            /\ \A call \in ChatInFlight :
                  (call.kind = "bookmark" /\ ~call.flag /\ Settles(call)) =>
                      store'[id].title = store[id].title
      ]_vars

\* C24: every write made by saveInsight, deleteInsight or updateInsight goes
\* to the storage key of the signed-in user and holds only insights that
\* were loaded from or saved under that key, also when the session changes
\* between the load and the write
C24_WritesStayWithUser ==
    [][ \A key \in StorageKeys :
            asyncStorage'[key] # asyncStorage[key] =>
                /\ key = getUserKey(sessionUser')
                /\ \A insight \in Range(parse(asyncStorage'[key])) : insight.origin = key ]_vars

\* the header lists of the four sections parseAnalysisResponse extracts
Sections == <<NegativeHeaders, PositiveHeaders, AffirmationHeaders, StepHeaders>>

\* line k is a header line of another section than section s
OtherSectionHeaderAt(lines, k, s) ==
    /\ ~someHeader(toLowerCase(lines[k]), Sections[s])
    /\ \E o \in DOMAIN Sections :
          o # s /\ someHeader(toLowerCase(lines[k]), Sections[o])

\* C25: in extractBulletPoints, once a section's header line has been
\* matched, nothing from a line matching another section's header on is
\* added to the section's list: the list is the one extracted from the
\* lines before that line
C25_StopsAtOtherSection ==
    pResult # NoAnalysis =>
        LET lines == splitLines(pText) IN
        \A s \in DOMAIN Sections : \A k \in DOMAIN lines :
            ( /\ \E h \in 1..(k - 1) : someHeader(toLowerCase(lines[h]), Sections[s])
              /\ OtherSectionHeaderAt(lines, k, s) )
            => extractBulletPoints(pText, Sections[s])
                 = bulletLoop(SubSeq(lines, 1, k - 1), Sections[s], 1, FALSE, <<>>)

\* the step before this one rebound the conversation: selectEntry,
\* selectAllEntries or clearChat ran to its end
ConversationJustChanged ==
    \/ chatLast.op = "clearChat"
    \/ /\ chatLast.op \in {"selectEntry", "selectAll"}
       /\ ~chatLast.failed
       /\ conversationId # NoConversation

\* C26: when the active conversation changes (selectEntry, selectAllEntries
\* or clearChat) while a sendMessage call is awaiting the gateway, the AI
\* reply of that call is not appended to the message list of the new
\* conversation and is not persisted under the new conversation's id
C26_LateReplyDropped ==
    [][ \A call \in ChatInFlight :
            (ConversationJustChanged /\ call.kind = "send" /\ Settles(call)) =>
                /\ messages' = messages
                /\ conversationId \in DOMAIN store =>
                      store'[conversationId].messages = store[conversationId].messages ]_vars

UserMessages(msgs) == SelectSeq(msgs, LAMBDA m : m.sender = "user")

\* every call of the hook so far was a sendMessage whose user message is
\* in the list
OnlySendsSoFar == calls_made > 0 /\ calls_made = Len(UserMessages(messages))

\* C27: under any interleaving of overlapping sendMessage calls with each
\* other and with the initial conversation load, every message the calls
\* appended stays in the in-memory list, and each call's user message
\* precedes that call's own reply
C27_SendsSurviveLoad ==
    [][ /\ (load.phase = "query" /\ chatLast'.op = "load" /\ OnlySendsSoFar) =>
              \A m \in Range(messages) : m \in Range(messages')
        /\ (SendSettled /\ OnlySendsSoFar) =>
              \E i \in 1..(Len(messages') - 1) : messages'[i] = chatLast'.user ]_vars

\* C28: when startNewSession is called while an answerCurrentQuestion call
\* for an earlier session is awaiting the gateway, then after both have
\* resolved currentSession is the session the start created (one question,
\* index 0, in_progress), not a continuation of the earlier session
C28_LateAnswerKeepsNewSession ==
    [][ \A call \in InFlight :
            ( /\ call.kind = "answer"
              /\ CopiesIn(call, calls') < CopiesIn(call, calls)
              /\ calls' = EmptyBag
              /\ last.op = "start" /\ last.overAnswer
              /\ call.session.id # currentSession.id )
            => /\ currentSession'.id = currentSession.id
               /\ Len(currentSession'.questions) = 1
               /\ currentSession'.current_question_index = 0
               /\ currentSession'.status = "in_progress" ]_vars

\* two or more mutations were called since the load resolved, none while a
\* load was pending, every write succeeded, the session did not change, and
\* every request has settled
MutationsSettled ==
    /\ insQueue = <<>>
    /\ insHist.sinceLoad >= 2
    /\ ~insHist.raced /\ ~insHist.failed /\ ~insHist.changed

\* C29: when two InsightStore mutations are issued before the first has
\* resolved or from the same rendered snapshot, then after both complete the
\* in-memory list and the persisted collection both reflect both mutations
\* and are equal to each other
C29_NoLostUpdate ==
    MutationsSettled =>
        /\ savedInsights = insIdeal
        /\ loaded(asyncStorage[getUserKey(sessionUser)]) = insIdeal

\* C30: the ids of the messages of the in-memory list are pairwise distinct
\* after any sequence of conversation creation, sendMessage and
\* refreshConversation calls
C30_MessageIdsDistinct ==
    \A i, j \in DOMAIN messages : i # j => messages[i].id # messages[j].id
=============================================================================
